---- MODULE Spec2Model ----
(***************************************************************************)
(* A model of the Open AudioAi extension's background service worker       *)
(* (src/background.js): the transcript record store kept under the         *)
(* chrome.storage.local key 'transcripts', the upload orchestrator         *)
(* (UploadManager.startUpload), the message handlers that edit and delete  *)
(* records, and the rate limiter (SecurityManager.checkRateLimit).         *)
(*                                                                         *)
(* Every `await` of the source is a suspension point: a handler is a       *)
(* process whose program counter names the storage or network call it is   *)
(* waiting for, and one action runs the call together with the code up to  *)
(* the next await.  chrome.storage.local.get / set are atomic; the         *)
(* read-modify-write cycles built from them are not.                       *)
(***************************************************************************)
EXTENDS Integers, Sequences, FiniteSets, TLC

(***************************************************************************)
(* Bounds of the model.                                                    *)
(***************************************************************************)
NumUploads == 2         \* startBackgroundUpload messages handled in a run
MaxStorageFaults == 1   \* chrome.storage.local calls that reject in a run
MaxEdits == 1           \* updateTranscript messages handled in a run
MaxDeletes == 1         \* deleteTranscript messages handled in a run
MaxTicks == 2           \* steps of the clock in a run
MaxCalls == 12          \* checkRateLimit calls in a run
MaxUserInfoFetches == 2 \* fetchUserInfo calls of one signInWithGoogle invocation
MaxDays == 32           \* days the service worker runs
MaxMessages == 2        \* messages the onMessage listener receives in a run

NumPopupUploads == 2    \* processAudioFile invocations of the popup in a run

Uploads == 1..NumUploads
Popups == 1..NumPopupUploads
\* the identities (userData.id) that send messages
Users == {1, 2}

(***************************************************************************)
(* JavaScript values.  Strings are TLA+ strings; the two markers below     *)
(* stand for `undefined` and `null` where a string may be missing.  The    *)
(* values of a parsed JSON text are tagged records (JUndef .. JObj).       *)
(***************************************************************************)
Undefined == "<undefined>"
NULL == "<null>"

JUndef == [t |-> "undef"]
JNull == [t |-> "null"]
JNum(n) == [t |-> "num", n |-> n]
JStr(s) == [t |-> "str", s |-> s]
JArr(a) == [t |-> "arr", a |-> a]
JObj(o) == [t |-> "obj", o |-> o]

\* raw?.key : undefined for null, undefined and values without the key
Prop(raw, key) ==
    IF raw.t = "obj" /\ key \in DOMAIN raw.o THEN raw.o[key] ELSE JUndef

\* JavaScript truthiness of a parsed value
Truthy(v) ==
    \/ v.t = "str" /\ v.s # ""
    \/ v.t = "num" /\ v.n # 0
    \/ v.t \in {"obj", "arr"}

EmptyObject == JObj(<<>>)

\* the string a JS value has as `x || fallback` when x is a string or missing
StrOr(x, fallback) == IF x.t = "str" /\ x.s # "" THEN x.s ELSE fallback

\* `x || d` on a string-or-undefined value: '' and undefined are falsy.
OrElse(x, d) == IF x = Undefined \/ x = NULL \/ x = "" THEN d ELSE x

\* `words || []` : words is an array (JArr) or undefined
WordsOrEmpty(w) == IF w.t = "arr" THEN w.a ELSE <<>>

(***************************************************************************)
(* String helpers: String.prototype.trim, replace(/\s+/g, ' ') and the     *)
(* decimal reading of Number(string).                                      *)
(***************************************************************************)
IsSpace(c) == c \in {" ", "\t", "\n", "\r"}

CharAt(s, i) == SubSeq(s, i, i)

RECURSIVE TrimStart(_)
TrimStart(s) ==
    IF Len(s) > 0 /\ IsSpace(CharAt(s, 1)) THEN TrimStart(Tail(s)) ELSE s

RECURSIVE TrimEnd(_)
TrimEnd(s) ==
    IF Len(s) > 0 /\ IsSpace(CharAt(s, Len(s)))
    THEN TrimEnd(SubSeq(s, 1, Len(s) - 1))
    ELSE s

Trim(s) == TrimEnd(TrimStart(s))

\* s.replace(/\s+/g, ' ') : every maximal run of whitespace becomes one space
RECURSIVE CollapseWhitespace(_)
CollapseWhitespace(s) ==
    IF Len(s) = 0 THEN ""
    ELSE IF IsSpace(CharAt(s, 1))
         THEN " " \o CollapseWhitespace(TrimStart(s))
         ELSE CharAt(s, 1) \o CollapseWhitespace(Tail(s))

Digits == <<"0", "1", "2", "3", "4", "5", "6", "7", "8", "9">>
IsDigit(c) == \E d \in 1..10 : Digits[d] = c
DigitValue(c) == (CHOOSE d \in 1..10 : Digits[d] = c) - 1

RECURSIVE AllDigits(_)
AllDigits(s) == Len(s) = 0 \/ (IsDigit(CharAt(s, 1)) /\ AllDigits(Tail(s)))

RECURSIVE DecimalValue(_)
DecimalValue(s) ==
    IF Len(s) = 0 THEN 0
    ELSE 10 * DecimalValue(SubSeq(s, 1, Len(s) - 1)) + DigitValue(CharAt(s, Len(s)))

NaN == [t |-> "nan"]

\* Number(trimmed) for the strings of this model: '' is 0, a run of decimal
\* digits is its value, any other text is NaN.
NumberOfString(s) == IF AllDigits(s) THEN JNum(DecimalValue(s)) ELSE NaN

(***************************************************************************)
(* The response normalizer.                                                *)
(***************************************************************************)
toNumberSafe(value) ==
    IF value.t = "num" THEN value
    ELSE IF value.t = "str" /\ NumberOfString(Trim(value.s)) # NaN
         THEN NumberOfString(Trim(value.s))
         ELSE JNull

\* typeof w?.word === 'string' ? w.word : String(w?.word ?? '')
WordText(w) ==
    LET v == Prop(w, "word") IN
    IF v.t = "str" THEN v.s
    ELSE IF v.t = "num" THEN ToString(v.n)
    ELSE IF v.t = "obj" THEN "[object Object]"
    ELSE ""

NormalizeWord(w) ==
    [word |-> WordText(w),
     start |-> toNumberSafe(Prop(w, "start")),
     end |-> toNumberSafe(Prop(w, "end"))]

RECURSIVE JoinWords(_)
JoinWords(words) ==
    IF Len(words) = 0 THEN "" ELSE Head(words).word \o JoinWords(Tail(words))

\* normalizeTranscriptionResponse, the word texts joined with a space
normalizeTranscriptionResponseSpaced(raw) ==
    LET words0 == IF raw.t = "arr" THEN raw.a
                  ELSE IF raw.t = "obj" /\ Prop(raw, "words").t = "arr"
                       THEN Prop(raw, "words").a
                       ELSE <<>>
        transcript0 == IF raw.t = "obj" /\ Prop(raw, "transcript").t = "str"
                       THEN Prop(raw, "transcript").s
                       ELSE ""
        words == [i \in 1..Len(words0) |->
                     [NormalizeWord(words0[i]) EXCEPT !.word = @ \o " "]]
        transcript == IF transcript0 = "" /\ Len(words) > 0
                      THEN Trim(CollapseWhitespace(JoinWords(words)))
                      ELSE transcript0
    IN [success |-> TRUE, transcript |-> transcript,
        words |-> [i \in 1..Len(words0) |-> NormalizeWord(words0[i])]]

normalizeTranscriptionResponse(raw) ==
    LET words0 == IF raw.t = "arr" THEN raw.a
                  ELSE IF raw.t = "obj" /\ Prop(raw, "words").t = "arr"
                       THEN Prop(raw, "words").a
                       ELSE <<>>
        transcript0 == IF raw.t = "obj" /\ Prop(raw, "transcript").t = "str"
                       THEN Prop(raw, "transcript").s
                       ELSE ""
        words == [i \in 1..Len(words0) |-> NormalizeWord(words0[i])]
        transcript == IF transcript0 = "" /\ Len(words) > 0
                      THEN Trim(CollapseWhitespace(JoinWords(words)))
                      ELSE transcript0
    IN [success |-> TRUE, transcript |-> transcript, words |-> words]

(***************************************************************************)
(* A response body is its text together with what JSON.parse makes of the  *)
(* text and of the text after the repair pass of                           *)
(* parseTranscriptionResponseText; ParseFail stands for a SyntaxError.     *)
(***************************************************************************)
ParseFail == [t |-> "fail"]

Body(text, strict, repaired) ==
    [text |-> text, strict |-> strict, repaired |-> repaired]

\* the normalized result, or ParseFail when it throws
parseTranscriptionResponseText(body) ==
    IF body.strict # ParseFail THEN normalizeTranscriptionResponse(body.strict)
    ELSE IF body.repaired # ParseFail
         THEN normalizeTranscriptionResponse(body.repaired)
         ELSE ParseFail

(***************************************************************************)
(* The data of a startBackgroundUpload message.  arrayBuffer is undefined, *)
(* an ArrayBuffer of byteLength bytes, a Blob of size bytes, or the plain  *)
(* object {} ; dataUrl is undefined or a string; token is undefined or a   *)
(* string.                                                                 *)
(***************************************************************************)
NoBuffer == [kind |-> "undefined"]
ArrayBufferOf(n) == [kind |-> "ArrayBuffer", byteLength |-> n]
BlobOf(n) == [kind |-> "Blob", size |-> n]
PlainObject == [kind |-> "Object"]

StartsWith(s, prefix) ==
    Len(s) >= Len(prefix) /\ SubSeq(s, 1, Len(prefix)) = prefix

\* hasAb with `> 0` for `>= 0`
hasAbNonEmpty(arrayBuffer) ==
    \/ arrayBuffer.kind = "ArrayBuffer" /\ arrayBuffer.byteLength > 0
    \/ arrayBuffer.kind = "Blob" /\ arrayBuffer.size > 0

\* arrayBuffer && (arrayBuffer.byteLength >= 0 || arrayBuffer.size >= 0)
hasAb(arrayBuffer) ==
    \/ arrayBuffer.kind = "ArrayBuffer" /\ arrayBuffer.byteLength >= 0
    \/ arrayBuffer.kind = "Blob" /\ arrayBuffer.size >= 0

\* typeof dataUrl === 'string' && dataUrl.startsWith('data:')
hasDu(dataUrl) == dataUrl # Undefined /\ StartsWith(dataUrl, "data:")

\* the guard of case 'startBackgroundUpload': TRUE when startUpload is called
AcceptsUpload(r) ==
    ~ ((r.filename = Undefined \/ r.filename = "")
       \/ (~hasAb(r.arrayBuffer) /\ ~hasDu(r.dataUrl)))

RECURSIVE AfterComma(_)
AfterComma(s) ==
    IF Len(s) = 0 THEN ""
    ELSE IF CharAt(s, 1) = "," THEN Tail(s) ELSE AfterComma(Tail(s))

\* bytes of the Blob a base64 data: URL decodes to
DataUrlBytes(dataUrl) == (Len(AfterComma(dataUrl)) * 3) \div 4

\* toBlobFromPayload: the size of the Blob, or -1 when it throws
\* 'Failed to build Blob from payload'
toBlobFromPayload(r) ==
    IF hasDu(r.dataUrl) THEN DataUrlBytes(r.dataUrl)
    ELSE IF r.arrayBuffer.kind = "ArrayBuffer" THEN r.arrayBuffer.byteLength
    ELSE -1

(***************************************************************************)
(* What the network does with the POST: fetch rejects, or a response with  *)
(* a status and a body (response.text() that rejects reads as '').         *)
(***************************************************************************)
FetchError(message) == [kind |-> "error", message |-> message]
Response(status, body) == [kind |-> "response", status |-> status, body |-> body]

\* response.ok
IsOk(status) == status >= 200 /\ status <= 299

Threw(message) == [threw |-> TRUE, message |-> message]
Returned(value) == [threw |-> FALSE, value |-> value]

\* the message of the Error thrown inside the try of the !response.ok branch
\* (JSON.parse throws a SyntaxError for a text that does not parse)
InnerNotOkMessage(resp) ==
    IF resp.body.strict = ParseFail THEN "Unexpected token"
    ELSE StrOr(Prop(resp.body.strict, "message"),
               "Server error " \o ToString(resp.status))

\* the !response.ok branch: whatever the try block throws, its own Error
\* included, is caught by `catch (_)`, which throws the generic message
NotOkMessage(resp) ==
    LET caught == InnerNotOkMessage(resp)
    IN "Server error " \o ToString(resp.status)

\* uploadPayloadAnswer with a body that does not parse read as an empty result
uploadPayloadAnswerLenient(net) ==
    IF net.kind = "error" THEN Threw(net.message)
    ELSE IF ~IsOk(net.status) THEN Threw(NotOkMessage(net))
    ELSE IF parseTranscriptionResponseText(net.body) = ParseFail
         THEN Returned(normalizeTranscriptionResponse(JUndef))
         ELSE Returned(parseTranscriptionResponseText(net.body))

\* uploadPayload after toBlobFromPayload succeeded, given the network's answer
uploadPayloadAnswer(net) ==
    IF net.kind = "error" THEN Threw(net.message)
    ELSE IF ~IsOk(net.status) THEN Threw(NotOkMessage(net))
    ELSE IF parseTranscriptionResponseText(net.body) = ParseFail
         THEN Threw("Invalid response format (" \o ToString(net.status) \o ")")
         ELSE Returned(parseTranscriptionResponseText(net.body))

\* uploadPayload: [posted, bearer, result]
uploadPayload(r, net) ==
    IF toBlobFromPayload(r) < 0
    THEN [posted |-> FALSE, bearer |-> FALSE,
          result |-> Threw("Failed to build Blob from payload")]
    ELSE [posted |-> TRUE,
          bearer |-> (r.token # Undefined /\ r.token # ""),
          result |-> uploadPayloadAnswer(net)]

\* transcripts.map(t => t.id === id ? record : t)
ReplaceById(list, id, record) ==
    [i \in 1..Len(list) |-> IF list[i].id = id THEN record ELSE list[i]]

\* transcripts.filter(t => t.id !== id)
RemoveById(list, id) == SelectSeq(list, LAMBDA t : t.id # id)

(***************************************************************************)
(* Inputs of the model.                                                    *)
(***************************************************************************)
GoodWord == JObj([word |-> JStr("hi "), start |-> JNum(0), end |-> JNum(1)])

BodyGood ==
    Body("{\"transcript\":\"hi\",\"words\":[{\"word\":\"hi \",\"start\":0,\"end\":1}]}",
         JObj([transcript |-> JStr("hi"), words |-> JArr(<<GoodWord>>)]),
         ParseFail)
BodyMessage ==
    Body("{\"message\":\"Insufficient tokens\"}",
         JObj([message |-> JStr("Insufficient tokens")]),
         ParseFail)
BodyNoMessage ==
    Body("{\"detail\":\"down\"}", JObj([detail |-> JStr("down")]), ParseFail)
BodyText == Body("Internal Server Error", ParseFail, ParseFail)
BodyTruncated == Body("{\"transcript\":\"hi", ParseFail, ParseFail)
\* the documented shape with a numeric code: 2 is the insufficient-quota answer
BodyQuota ==
    Body("{\"code\":2,\"message\":\"Insufficient tokens\"}",
         JObj([code |-> JNum(2), message |-> JStr("Insufficient tokens")]),
         ParseFail)

\* bodies that parse, at once or after the repair pass (None becomes null), to
\* a value that is neither an array nor an object
BodyNull == Body("null", JNull, JNull)
BodyNone == Body("None", ParseFail, JNull)
BodyNumber == Body("42", JNum(42), JNum(42))

\* the network's answers in the runs that explore the store
StoreNets == {FetchError("Failed to fetch"), Response(200, BodyGood)}

\* the network's answers in the runs that explore one upload
AllNets ==
    StoreNets \cup
    {Response(500, BodyMessage), Response(500, BodyNoMessage),
     Response(503, BodyText), Response(200, BodyTruncated),
     Response(200, BodyQuota), Response(200, BodyNull), Response(200, BodyNone),
     Response(200, BodyNumber)}

ValidRequest ==
    [filename |-> "a.m4a", arrayBuffer |-> ArrayBufferOf(3),
     dataUrl |-> Undefined, token |-> "tok"]

StoreRequests == {ValidRequest}

AllRequests ==
    [filename : {Undefined, "", "a.m4a"},
     arrayBuffer : {NoBuffer, ArrayBufferOf(0), ArrayBufferOf(3), BlobOf(3), PlainObject},
     dataUrl : {Undefined, "blob:x", "data:audio/m4a;base64,", "data:audio/m4a;base64,QUJD"},
     token : {Undefined, "", "tok"}]

(***************************************************************************)
(* State.                                                                  *)
(***************************************************************************)
VARIABLES
    transcripts,  \* chrome.storage.local 'transcripts': the record list
    faults,       \* storage calls that have rejected so far
    up,           \* up[p]: the p-th startBackgroundUpload handler
    edit,         \* the updateTranscript handler
    edits,        \* updateTranscript messages handled so far
    del,          \* the deleteTranscript handler
    deletes,      \* deleteTranscript messages handled so far
    deleted,      \* ids whose deleteTranscript has written the store
    now,          \* Date.now()
    rateLimitData,\* SecurityManager.rateLimitData: userId -> request times
    securityLog,  \* number of logSecurity calls, by event
    accepted,     \* history: accepted[u], the times checkRateLimit(u) returned true
    last,         \* history: the latest checkRateLimit call
    calls,        \* checkRateLimit calls so far
    pop,          \* pop[q]: the q-th processAudioFile invocation of the popup
    authToken,    \* chrome.storage.local 'authToken'
    auth,         \* the refreshTokenIfNeeded / validateToken invocation
    userData,     \* chrome.storage.local 'userData'
    norm,         \* a value given to the normalizer, and what it returned
    listed,       \* the response to the latest getTranscripts message
    user,         \* chrome.storage.local 'user'
    isAuthenticated, \* chrome.storage.local 'isAuthenticated'
    signIn,       \* the signInWithGoogle invocation of a popup
    signOut,      \* the logout invocation of a popup
    cleanup,      \* the daily cleanup callback of the service worker
    listener      \* the onMessage listener and the message it is answering

rl == <<now, rateLimitData, securityLog, accepted, last, calls>>

\* the sign-in state of the popup, its handlers, and the listing
session == <<listed, user, isAuthenticated, signIn, signOut, cleanup, listener>>

\* what the handlers of the record store in the service worker leave alone
ext == <<pop, authToken, auth, userData, norm, session>>

vars == <<transcripts, faults, up, edit, edits, del, deletes, deleted,
          now, rateLimitData, securityLog, accepted, last, calls,
          pop, authToken, auth, userData, norm,
          listed, user, isAuthenticated, signIn, signOut, cleanup, listener>>

NoRecord == [id |-> 0]
NoResponse == [kind |-> "none"]
NoAnswer == [kind |-> "none"]
NoRequest ==
    [filename |-> Undefined, arrayBuffer |-> NoBuffer,
     dataUrl |-> Undefined, token |-> Undefined]

LogEvents ==
    {"rate_limit_exceeded", "invalid_token", "token_expiring_soon",
     "token_validation_error", "token_refresh_failed", "unauthorized_sender",
     "invalid_request_structure", "message_handling_error", "unknown_action"}
NoCall == [user |-> 0, at |-> 0, before |-> 0, allowed |-> FALSE]

\* steps: history, what the invocation of startUpload has done so far, in order
IdleUpload ==
    [pc |-> "idle", sender |-> 0, at |-> 0, before |-> 0, req |-> NoRequest,
     net |-> NoAnswer, snap |-> <<>>, term |-> NoRecord,
     caught |-> FALSE, message |-> Undefined, posts |-> 0, bearer |-> FALSE,
     steps |-> <<>>, ret |-> NoResponse]

IdleEdit ==
    [pc |-> "idle", id |-> 0, newTranscript |-> Undefined,
     newFilename |-> Undefined, snap |-> <<>>, at |-> 0]

IdleDelete == [pc |-> "idle", id |-> 0, snap |-> <<>>]

IdlePopup ==
    [pc |-> "idle", file |-> [name |-> "", type |-> "", size |-> 0],
     token |-> Undefined, snap |-> <<>>, at |-> 0, stored |-> FALSE,
     net |-> NoAnswer,
     result |-> JUndef, message |-> Undefined, posts |-> 0,
     showTokenWarning |-> FALSE, shownError |-> Undefined]

IdleAuth ==
    [pc |-> "idle", input |-> JNull, net |-> NoAnswer, host |-> "none",
     valid |-> FALSE, validated |-> FALSE, updated |-> JNull,
     ret |-> NoResponse]

NoNorm == [raw |-> JUndef, out |-> NoResponse]

IdleSignIn ==
    [pc |-> "idle", token |-> Undefined, force |-> FALSE, fetches |-> 0,
     afterLogout |-> FALSE, shownError |-> FALSE, at |-> 0]

IdleSignOut == [pc |-> "idle", token |-> Undefined, cleared |-> FALSE]

\* n: messages received so far; handled: handleMessage was called for the
\* message; responses: what sendResponse was called with for it, in order
IdleListener ==
    [pc |-> "idle", n |-> 0, sender |-> JUndef, request |-> JUndef,
     handled |-> FALSE, responses |-> <<>>]

\* day: Date.now() in days since the service worker started
IdleCleanup == [pc |-> "idle", day |-> 0, runs |-> 0, ranAt |-> 0]

\* the state after the service worker has started on an empty storage
InitCore ==
    /\ transcripts = <<>>
    /\ faults = 0
    /\ up = [p \in Uploads |-> IdleUpload]
    /\ edit = IdleEdit
    /\ edits = 0
    /\ del = IdleDelete
    /\ deletes = 0
    /\ deleted = {}
    /\ now = 0
    /\ rateLimitData = [u \in Users |-> <<>>]
    /\ securityLog = [e \in LogEvents |-> 0]
    /\ accepted = [u \in Users |-> <<>>]
    /\ last = NoCall
    /\ calls = 0
    /\ pop = [q \in Popups |-> IdlePopup]
    /\ auth = IdleAuth
    /\ listed = NoResponse
    /\ signIn = IdleSignIn
    /\ signOut = IdleSignOut
    /\ cleanup = IdleCleanup
    /\ listener = IdleListener

Init ==
    /\ InitCore
    /\ user = Undefined
    /\ isAuthenticated = FALSE
    /\ authToken = Undefined
    /\ userData = JNull
    /\ norm = NoNorm

windowMs == 60000
maxRequests == 10

\* the accepted calls of u in the windowMs before t (t included)
AcceptedBefore(u, t) ==
    Cardinality({i \in 1..Len(accepted[u]) :
                    accepted[u][i] <= t /\ t - accepted[u][i] < windowMs})

\* a chrome.storage.local call may reject (quota, I/O error)
CanFault == faults < MaxStorageFaults
StorageErrorMessage == "QUOTA_BYTES quota exceeded"

(***************************************************************************)
(* buildRecord.  createdAt is Date.now() when the record is built; a record *)
(* that was never edited has no updatedAt (JUndef), an edited one has the   *)
(* Date.now() of its latest edit (JNum).                                    *)
(***************************************************************************)
\* buildRecord with `error || ''`
buildRecordEmptyError(id, filename, status, transcript, words, error) ==
    [id |-> id,
     filename |-> filename,
     createdAt |-> now,
     updatedAt |-> JUndef,
     status |-> status,
     transcript |-> OrElse(transcript, ""),
     words |-> WordsOrEmpty(words),
     error |-> OrElse(error, "")]

buildRecord(id, filename, status, transcript, words, error) ==
    [id |-> id,
     filename |-> filename,
     createdAt |-> now,
     updatedAt |-> JUndef,
     status |-> status,
     transcript |-> OrElse(transcript, ""),
     words |-> WordsOrEmpty(words),
     error |-> OrElse(error, NULL)]

(***************************************************************************)
(* handleMessage, case 'startBackgroundUpload', and startUpload.           *)
(* The record id `${Date.now()}-${random}` is modelled by the number p of  *)
(* the invocation: two invocations never draw the same id.                 *)
(***************************************************************************)
\* the steps of startUpload a run keeps in up[p].steps
Saved == <<"save", "notify_pending">>
Posted == <<"post">>
Finished(status) == <<"terminal_write", "notify_" \o status>>

\* built when the invocation starts, before its first await
pendingRecord(p) ==
    [buildRecord(p, up[p].req.filename, "pending", Undefined, JUndef, Undefined)
        EXCEPT !.createdAt = up[p].at]

successRecord(p, value) ==
    buildRecord(p, up[p].req.filename, "success",
                value.transcript, JArr(value.words), Undefined)

errorRecord(p, message) ==
    buildRecord(p, up[p].req.filename, "error", Undefined, JUndef, message)

\* the guard, and for an accepted message startUpload up to its first await
\* (chrome.storage.local.get inside saveTranscriptRecord)
StartBackgroundUpload(p, senders, requests) ==
    /\ UNCHANGED <<rl, ext>>
    /\ up[p].pc = "idle"
    /\ IF p = 1 THEN TRUE ELSE up[p - 1].pc # "idle"
    /\ \E u \in senders, r \in requests :
          up' = [up EXCEPT ![p] =
                   IF AcceptsUpload(r)
                   THEN [@ EXCEPT !.pc = "save_get", !.req = r, !.sender = u,
                                  !.at = now, !.before = AcceptedBefore(u, now)]
                   ELSE [@ EXCEPT !.pc = "done", !.req = r, !.sender = u,
                                  !.at = now, !.before = AcceptedBefore(u, now),
                                  !.ret = [kind |-> "result", success |-> FALSE,
                                           id |-> 0, message |-> "Missing file data"]]]
    /\ UNCHANGED <<transcripts, faults, edit, edits, del, deletes, deleted>>

\* saveTranscriptRecord: the get resolves, or rejects and the catch swallows it
\* (then notifyProgress({ id, status: 'pending' }))
SaveGet(p) ==
    /\ UNCHANGED <<rl, ext>>
    /\ up[p].pc = "save_get"
    /\ \/ /\ up' = [up EXCEPT ![p].pc = "save_set", ![p].snap = transcripts]
          /\ UNCHANGED faults
       \/ /\ CanFault
          /\ faults' = faults + 1
          /\ up' = [up EXCEPT ![p].pc = "upload", ![p].steps = @ \o Saved]
    /\ UNCHANGED <<transcripts, edit, edits, del, deletes, deleted>>

\* SaveSet, with startUpload returning {success: true, id} as soon as the
\* pending record is written while the upload runs on
SaveSetReturning(p) ==
    /\ UNCHANGED <<rl, ext>>
    /\ up[p].pc = "save_set"
    /\ \/ /\ transcripts' = <<pendingRecord(p)>> \o up[p].snap
          /\ UNCHANGED faults
       \/ /\ CanFault
          /\ faults' = faults + 1
          /\ UNCHANGED transcripts
    /\ up' = [up EXCEPT ![p].pc = "upload", ![p].snap = <<>>,
                        ![p].steps = @ \o Saved,
                        ![p].ret = [kind |-> "result", success |-> TRUE,
                                    id |-> p, message |-> Undefined]]
    /\ UNCHANGED <<edit, edits, del, deletes, deleted>>

\* SaveSet, with the record put after the records read: [...transcripts, record]
SaveSetAppending(p) ==
    /\ UNCHANGED <<rl, ext>>
    /\ up[p].pc = "save_set"
    /\ \/ /\ transcripts' = up[p].snap \o <<pendingRecord(p)>>
          /\ UNCHANGED faults
       \/ /\ CanFault
          /\ faults' = faults + 1
          /\ UNCHANGED transcripts
    /\ up' = [up EXCEPT ![p].pc = "upload", ![p].snap = <<>>,
                        ![p].steps = @ \o Saved]
    /\ UNCHANGED <<edit, edits, del, deletes, deleted>>

\* saveTranscriptRecord: set({transcripts: [record, ...transcripts]}), resolved
\* or rejected and swallowed, then notifyProgress({ id, status: 'pending' })
SaveSet(p) ==
    /\ UNCHANGED <<rl, ext>>
    /\ up[p].pc = "save_set"
    /\ \/ /\ transcripts' = <<pendingRecord(p)>> \o up[p].snap
          /\ UNCHANGED faults
       \/ /\ CanFault
          /\ faults' = faults + 1
          /\ UNCHANGED transcripts
    /\ up' = [up EXCEPT ![p].pc = "upload", ![p].snap = <<>>,
                        ![p].steps = @ \o Saved]
    /\ UNCHANGED <<edit, edits, del, deletes, deleted>>

\* the try block up to the storage get: uploadPayload and buildRecord, or the
\* catch block up to its storage get
Upload(p, nets) ==
    /\ UNCHANGED <<rl, ext>>
    /\ up[p].pc = "upload"
    /\ \E net \in nets :
          LET u == uploadPayload(up[p].req, net) IN
          up' = [up EXCEPT ![p] =
                   [@ EXCEPT !.pc = "term_get",
                             !.net = IF u.posted THEN net ELSE NoAnswer,
                             !.posts = @ + (IF u.posted THEN 1 ELSE 0),
                             !.steps = IF u.posted THEN @ \o Posted ELSE @,
                             !.bearer = u.bearer,
                             !.caught = u.result.threw,
                             !.message = IF u.result.threw THEN u.result.message
                                         ELSE Undefined,
                             !.term = IF u.result.threw
                                      THEN errorRecord(p, u.result.message)
                                      ELSE successRecord(p, u.result.value)]]
    /\ UNCHANGED <<transcripts, faults, edit, edits, del, deletes, deleted>>

\* TermFault, with the upload run again when a storage call of the try block
\* rejects
TermFaultRetrying(p) ==
    /\ CanFault
    /\ faults' = faults + 1
    /\ up' = [up EXCEPT ![p] =
                IF ~up[p].caught
                THEN [@ EXCEPT !.pc = "upload", !.snap = <<>>]
                ELSE [@ EXCEPT !.pc = "done", !.snap = <<>>,
                               !.ret = [kind |-> "error", error |-> "Internal error"]]]
    /\ UNCHANGED <<transcripts, edit, edits, del, deletes, deleted>>

\* a storage call of the terminal update rejects: in the try block the catch
\* block takes over with the storage error; in the catch block startUpload
\* rejects and the listener answers {error: 'Internal error'}
TermFault(p) ==
    /\ CanFault
    /\ faults' = faults + 1
    /\ up' = [up EXCEPT ![p] =
                IF ~up[p].caught
                THEN [@ EXCEPT !.pc = "term_get", !.snap = <<>>, !.caught = TRUE,
                               !.message = StorageErrorMessage,
                               !.term = errorRecord(p, StorageErrorMessage)]
                ELSE [@ EXCEPT !.pc = "done", !.snap = <<>>,
                               !.ret = [kind |-> "error", error |-> "Internal error"]]]
    /\ UNCHANGED <<transcripts, edit, edits, del, deletes, deleted>>

\* const { transcripts = [] } = await chrome.storage.local.get(['transcripts'])
TermGet(p) ==
    /\ UNCHANGED <<rl, ext>>
    /\ up[p].pc = "term_get"
    /\ \/ /\ up' = [up EXCEPT ![p].pc = "term_set", ![p].snap = transcripts]
          /\ UNCHANGED <<transcripts, faults, edit, edits, del, deletes, deleted>>
       \/ TermFault(p)

\* set({transcripts: transcripts.map(t => t.id === id ? record : t)}), then
\* notifyProgress and return
TermSet(p) ==
    /\ UNCHANGED <<rl, ext>>
    /\ up[p].pc = "term_set"
    /\ \/ /\ transcripts' = ReplaceById(up[p].snap, p, up[p].term)
          /\ up' = [up EXCEPT ![p].pc = "done", ![p].snap = <<>>,
                              ![p].steps = @ \o Finished(up[p].term.status),
                              ![p].ret = [kind |-> "result",
                                          success |-> ~up[p].caught, id |-> p,
                                          message |-> up[p].message]]
          /\ UNCHANGED <<faults, edit, edits, del, deletes, deleted>>
       \/ TermFault(p)

(***************************************************************************)
(* handleMessage, case 'updateTranscript'.                                 *)
(***************************************************************************)
NoId == 0
MessageIds == {NoId} \cup Uploads
NewTranscripts == {Undefined, "edited"}
NewFilenames == {Undefined, "  ", " b.m4a "}

\* the callback of transcripts.map for the record with the id
UpdatedRecord(t, newTranscript, newFilename, at) ==
    [t EXCEPT
       !.updatedAt = JNum(at),
       !.transcript = IF newTranscript # Undefined THEN newTranscript ELSE @,
       !.filename = IF newFilename # Undefined /\ Trim(newFilename) # ""
                    THEN Trim(newFilename) ELSE @]

UpdateById(list, id, newTranscript, newFilename, at) ==
    [i \in 1..Len(list) |->
        IF list[i].id = id
        THEN UpdatedRecord(list[i], newTranscript, newFilename, at)
        ELSE list[i]]

\* the message arrives; `Missing id`, or the storage get resolves (the map
\* with its Date.now() runs at once) or rejects
UpdateTranscriptGet ==
    /\ UNCHANGED <<rl, ext>>
    /\ edit.pc = "idle"
    /\ edits < MaxEdits
    /\ edits' = edits + 1
    /\ \E id \in MessageIds, nt \in NewTranscripts, nf \in NewFilenames :
          \/ /\ id = NoId
             /\ UNCHANGED <<edit, faults>>
          \/ /\ id # NoId
             /\ edit' = [pc |-> "set", id |-> id, newTranscript |-> nt,
                         newFilename |-> nf, snap |-> transcripts, at |-> now]
             /\ UNCHANGED faults
          \/ /\ id # NoId
             /\ CanFault
             /\ faults' = faults + 1
             /\ UNCHANGED edit
    /\ UNCHANGED <<transcripts, up, del, deletes, deleted>>

\* set({transcripts: updated}) resolves or rejects; the handler returns
UpdateTranscriptSet ==
    /\ UNCHANGED <<rl, ext>>
    /\ edit.pc = "set"
    /\ edit' = IdleEdit
    /\ \/ /\ transcripts' = UpdateById(edit.snap, edit.id, edit.newTranscript,
                                       edit.newFilename, edit.at)
          /\ UNCHANGED faults
       \/ /\ CanFault
          /\ faults' = faults + 1
          /\ UNCHANGED transcripts
    /\ UNCHANGED <<up, edits, del, deletes, deleted>>

(***************************************************************************)
(* handleMessage, case 'deleteTranscript'.                                 *)
(***************************************************************************)
\* the message arrives with one of the ids; `Missing id`, or the storage get
\* resolves or rejects
DeleteTranscriptGetStep(ids) ==
    /\ del.pc = "idle"
    /\ deletes < MaxDeletes
    /\ deletes' = deletes + 1
    /\ \E id \in ids :
          \/ /\ id = NoId
             /\ UNCHANGED <<del, faults>>
          \/ /\ id # NoId
             /\ del' = [pc |-> "set", id |-> id, snap |-> transcripts]
             /\ UNCHANGED faults
          \/ /\ id # NoId
             /\ CanFault
             /\ faults' = faults + 1
             /\ UNCHANGED del
    /\ UNCHANGED <<transcripts, up, edit, edits, deleted>>

DeleteTranscriptGet ==
    /\ DeleteTranscriptGetStep(MessageIds)
    /\ UNCHANGED <<rl, ext>>

DeleteTranscriptSet ==
    /\ UNCHANGED <<rl, ext>>
    /\ del.pc = "set"
    /\ del' = IdleDelete
    /\ \/ /\ transcripts' = RemoveById(del.snap, del.id)
          /\ deleted' = deleted \cup {del.id}
          /\ UNCHANGED faults
       \/ /\ CanFault
          /\ faults' = faults + 1
          /\ UNCHANGED <<transcripts, deleted>>
    /\ UNCHANGED <<up, edit, edits, deletes>>

(***************************************************************************)
(* handleMessage, case 'getTranscripts': the list as storage holds it, or   *)
(* the listener's {error: 'Internal error'} when the storage get rejects.  *)
(* One getTranscripts message is answered in a run.                        *)
(***************************************************************************)
GetTranscripts ==
    /\ listed = NoResponse
    /\ \/ /\ listed' = [kind |-> "result", success |-> TRUE,
                         transcripts |-> transcripts]
          /\ UNCHANGED faults
       \/ /\ CanFault
          /\ faults' = faults + 1
          /\ listed' = [kind |-> "error", error |-> "Internal error"]
    /\ UNCHANGED <<transcripts, up, edit, edits, del, deletes, deleted, rl,
                   pop, authToken, auth, userData, norm,
                   user, isAuthenticated, signIn, signOut, cleanup, listener>>

(***************************************************************************)
(* SecurityManager.checkRateLimit and its caller handleAuthValidation.     *)
(***************************************************************************)
\* userRequests.filter(time => now - time < windowMs)
recentRequests(userRequests, t) ==
    SelectSeq(userRequests, LAMBDA time : t - time < windowMs)

\* checkRateLimit with `>` for `>=` in the comparison with maxRequests
checkRateLimitOffByOne(data, userId, t) ==
    LET recent == recentRequests(data[userId], t) IN
    IF Len(recent) > maxRequests
    THEN [allowed |-> FALSE, data |-> data, logged |-> 1]
    ELSE [allowed |-> TRUE,
          data |-> [data EXCEPT ![userId] = Append(recent, t)],
          logged |-> 0]

\* checkRateLimit that stores the pruned list with the new time also when it
\* rejects
checkRateLimitRecording(data, userId, t) ==
    LET recent == recentRequests(data[userId], t) IN
    [allowed |-> Len(recent) < maxRequests,
     data |-> [data EXCEPT ![userId] = Append(recent, t)],
     logged |-> IF Len(recent) >= maxRequests THEN 1 ELSE 0]

\* checkRateLimit(userId) at time t on the table data:
\* [allowed, data (the table afterwards), logged (rate_limit_exceeded)]
checkRateLimit(data, userId, t) ==
    LET recent == recentRequests(data[userId], t) IN
    IF Len(recent) >= maxRequests
    THEN [allowed |-> FALSE, data |-> data, logged |-> 1]
    ELSE [allowed |-> TRUE,
          data |-> [data EXCEPT ![userId] = Append(recent, t)],
          logged |-> 0]

\* handleAuthValidation for userData with an accessToken, up to the await of
\* validateToken
HandleAuthValidationStep(u) ==
    /\ calls < MaxCalls
    /\ calls' = calls + 1
    /\ LET c == checkRateLimit(rateLimitData, u, now) IN
         /\ rateLimitData' = c.data
         /\ securityLog' = [securityLog EXCEPT
                              !["rate_limit_exceeded"] = @ + c.logged]
         /\ accepted' = IF c.allowed
                        THEN [accepted EXCEPT ![u] = Append(@, now)]
                        ELSE accepted
         /\ last' = [user |-> u, at |-> now, before |-> AcceptedBefore(u, now),
                     allowed |-> c.allowed]
    /\ UNCHANGED now

HandleAuthValidation(u) ==
    /\ HandleAuthValidationStep(u)
    /\ UNCHANGED <<transcripts, faults, up, edit, edits, del, deletes, deleted>>
    /\ UNCHANGED ext

\* time passes
Tick ==
    /\ now < MaxTicks * (windowMs \div 2)
    /\ now' = now + (windowMs \div 2)
    /\ UNCHANGED <<transcripts, faults, up, edit, edits, del, deletes, deleted,
                   rateLimitData, securityLog, accepted, last, calls>>
    /\ UNCHANGED ext

(***************************************************************************)
(* AuthManager: validateToken and refreshTokenIfNeeded.                    *)
(***************************************************************************)
\* the decimal digits a string starts with
RECURSIVE LeadingDigits(_)
LeadingDigits(s) ==
    IF Len(s) > 0 /\ IsDigit(CharAt(s, 1))
    THEN CharAt(s, 1) \o LeadingDigits(Tail(s))
    ELSE ""

\* parseInt(String(v)): leading whitespace, an optional sign, then the digits
\* up to the first other character; NaN when there is no digit
parseInt(v) ==
    IF v.t = "num" THEN v
    ELSE IF v.t # "str" THEN NaN
    ELSE LET t == TrimStart(v.s)
             neg == Len(t) > 0 /\ CharAt(t, 1) = "-"
             u == IF Len(t) > 0 /\ CharAt(t, 1) \in {"-", "+"} THEN Tail(t) ELSE t
             d == LeadingDigits(u)
         IN IF d = "" THEN NaN
            ELSE JNum(IF neg THEN 0 - DecimalValue(d) ELSE DecimalValue(d))

\* validateToken with `<=` for `<` in the comparison with 300
validateTokenInclusive(token, net) ==
    IF ~Truthy(token) \/ token.t # "str" THEN [valid |-> FALSE, event |-> "none"]
    ELSE IF net.kind = "error" \/ net.body.strict \in {ParseFail, JNull}
    THEN [valid |-> FALSE, event |-> "token_validation_error"]
    ELSE IF Truthy(Prop(net.body.strict, "error"))
    THEN [valid |-> FALSE, event |-> "invalid_token"]
    ELSE IF parseInt(Prop(net.body.strict, "expires_in")) # NaN
            /\ parseInt(Prop(net.body.strict, "expires_in")).n <= 300
    THEN [valid |-> FALSE, event |-> "token_expiring_soon"]
    ELSE [valid |-> TRUE, event |-> "none"]

\* validateToken(token), given what the tokeninfo endpoint answers: the value
\* returned and the event given to logSecurity.  fetch rejecting, response.json()
\* rejecting and `tokenInfo.error` on null all end in the catch block.
validateToken(token, net) ==
    IF ~Truthy(token) \/ token.t # "str" THEN [valid |-> FALSE, event |-> "none"]
    ELSE IF net.kind = "error" \/ net.body.strict \in {ParseFail, JNull}
    THEN [valid |-> FALSE, event |-> "token_validation_error"]
    ELSE IF Truthy(Prop(net.body.strict, "error"))
    THEN [valid |-> FALSE, event |-> "invalid_token"]
    ELSE IF parseInt(Prop(net.body.strict, "expires_in")) # NaN
            /\ parseInt(Prop(net.body.strict, "expires_in")).n < 300
    THEN [valid |-> FALSE, event |-> "token_expiring_soon"]
    ELSE [valid |-> TRUE, event |-> "none"]

\* SecurityManager.logSecurity(event), no call for "none"
LogSecurity(log, event) ==
    IF event \in LogEvents THEN [log EXCEPT ![event] = @ + 1] ELSE log

\* { ...userData, accessToken: newToken }
WithAccessToken(data, newToken) ==
    JObj([k \in DOMAIN data.o \cup {"accessToken"} |->
             IF k = "accessToken" THEN newToken ELSE data.o[k]])

authFrame ==
    <<transcripts, up, edit, edits, del, deletes, deleted, now, rateLimitData,
      accepted, last, calls, pop, authToken, norm, session>>

\* refreshTokenIfNeeded(userData) up to the fetch of validateToken; a token
\* that is not a string makes validateToken return at once
RefreshTokenIfNeededStep(inputs) ==
    /\ auth.pc = "idle"
    /\ \E data \in inputs :
          auth' = IF data = JNull \/ ~Truthy(Prop(data, "accessToken"))
                  THEN [auth EXCEPT !.pc = "done", !.input = data,
                                    !.ret = [kind |-> "result", value |-> JNull]]
                  ELSE IF Prop(data, "accessToken").t # "str"
                  THEN [auth EXCEPT !.pc = "get_token", !.input = data,
                                    !.validated = TRUE,
                                    !.valid = validateToken(Prop(data, "accessToken"),
                                                            NoAnswer).valid]
                  ELSE [auth EXCEPT !.pc = "validate", !.input = data]

RefreshTokenIfNeeded(inputs) ==
    /\ RefreshTokenIfNeededStep(inputs)
    /\ UNCHANGED <<securityLog, userData, faults, authFrame>>

\* the rest of validateToken, and `if (isValid) return userData`
ValidateToken(nets) ==
    /\ auth.pc = "validate"
    /\ \E net \in nets :
          LET v == validateToken(Prop(auth.input, "accessToken"), net) IN
          /\ securityLog' = LogSecurity(securityLog, v.event)
          /\ auth' = IF v.valid
                     THEN [auth EXCEPT !.pc = "done", !.net = net, !.valid = TRUE,
                                       !.validated = TRUE,
                                       !.ret = [kind |-> "result", value |-> auth.input]]
                     ELSE [auth EXCEPT !.pc = "get_token", !.net = net,
                                       !.valid = FALSE, !.validated = TRUE]
    /\ UNCHANGED <<userData, faults, authFrame>>

\* what chrome.identity.getAuthToken({interactive: false}) gives its callback:
\* lastError set, a token, or no token with lastError unset
HostAnswers == {"lastError", "token", "undefined"}

\* the Promise around chrome.identity.getAuthToken
GetAuthToken ==
    /\ auth.pc = "get_token"
    /\ \E host \in HostAnswers :
          IF host = "lastError"
          THEN /\ securityLog' = LogSecurity(securityLog, "token_refresh_failed")
               /\ auth' = [auth EXCEPT !.pc = "done", !.host = host,
                                       !.ret = [kind |-> "result", value |-> JNull]]
          ELSE /\ securityLog' = securityLog
               /\ auth' = [auth EXCEPT
                             !.pc = "store", !.host = host,
                             !.updated = WithAccessToken(auth.input,
                                            IF host = "token" THEN JStr("new")
                                            ELSE JUndef)]
    /\ UNCHANGED <<userData, faults, authFrame>>

\* chrome.storage.local.set({ userData: updatedUserData }) resolves or rejects
StoreUserData ==
    /\ auth.pc = "store"
    /\ \/ /\ userData' = auth.updated
          /\ auth' = [auth EXCEPT !.pc = "done",
                                  !.ret = [kind |-> "result", value |-> auth.updated]]
          /\ UNCHANGED <<securityLog, faults>>
       \/ /\ CanFault
          /\ faults' = faults + 1
          /\ securityLog' = LogSecurity(securityLog, "token_refresh_failed")
          /\ auth' = [auth EXCEPT !.pc = "done",
                                  !.ret = [kind |-> "result", value |-> JNull]]
          /\ UNCHANGED userData
    /\ UNCHANGED authFrame

\* an answer of https://oauth2.googleapis.com/tokeninfo
TokenInfo(status, text, json) == Response(status, Body(text, json, ParseFail))

AuthNets ==
    {FetchError("Failed to fetch"),
     TokenInfo(200, "{\"expires_in\":\"3599\"}", JObj([expires_in |-> JStr("3599")])),
     TokenInfo(200, "{\"expires_in\":300}", JObj([expires_in |-> JNum(300)])),
     TokenInfo(200, "{\"expires_in\":\"299\"}", JObj([expires_in |-> JStr("299")])),
     TokenInfo(200, "{\"expires_in\":0}", JObj([expires_in |-> JNum(0)])),
     TokenInfo(200, "{\"expires_in\":\" 12 s\"}", JObj([expires_in |-> JStr(" 12 s")])),
     TokenInfo(200, "{\"expires_in\":\"soon\"}", JObj([expires_in |-> JStr("soon")])),
     TokenInfo(200, "{\"expires_in\":null}", JObj([expires_in |-> JNull])),
     TokenInfo(200, "{}", EmptyObject),
     TokenInfo(200, "{\"azp\":\"app\"}", JObj([azp |-> JStr("app")])),
     TokenInfo(400, "{\"error\":\"invalid_token\"}", JObj([error |-> JStr("invalid_token")])),
     TokenInfo(200, "{\"error\":\"x\",\"expires_in\":3599}",
               JObj([error |-> JStr("x"), expires_in |-> JNum(3599)])),
     TokenInfo(200, "{\"error\":\"\",\"expires_in\":3599}",
               JObj([error |-> JStr(""), expires_in |-> JNum(3599)])),
     TokenInfo(200, "null", JNull),
     TokenInfo(502, "<html>Bad Gateway</html>", ParseFail)}

\* the userData of a message
UserDatas ==
    {JNull,
     JObj([id |-> JNum(1)]),
     JObj([id |-> JNum(1), accessToken |-> JStr("")]),
     JObj([id |-> JNum(1), accessToken |-> JStr("tok")]),
     JObj([id |-> JNum(2), accessToken |-> JStr("tok2")]),
     JObj([id |-> JNum(1), accessToken |-> JNum(12345)])}

(***************************************************************************)
(* The popup (src/js/popup.js): SecurityUtils.validateAudioFile,           *)
(* ApiService.uploadAudio and processAudioFile.  The popup writes the same *)
(* 'transcripts' list as the service worker.                               *)
(***************************************************************************)
\* s.includes(sub)
Includes(s, sub) ==
    \E i \in 1..(Len(s) - Len(sub) + 1) : SubSeq(s, i, i + Len(sub) - 1) = sub

UpperCase == "ABCDEFGHIJKLMNOPQRSTUVWXYZ"
LowerCase == "abcdefghijklmnopqrstuvwxyz"

RECURSIVE toLowerCase(_)
toLowerCase(s) ==
    IF Len(s) = 0 THEN ""
    ELSE (IF \E k \in 1..26 : CharAt(UpperCase, k) = CharAt(s, 1)
          THEN CharAt(LowerCase, CHOOSE k \in 1..26 : CharAt(UpperCase, k) = CharAt(s, 1))
          ELSE CharAt(s, 1))
         \o toLowerCase(Tail(s))

\* file.name.split('.').pop()
RECURSIVE LastPart(_)
LastPart(s) ==
    IF ~Includes(s, ".") THEN s
    ELSE LastPart(SubSeq(s, (CHOOSE i \in 1..Len(s) : CharAt(s, i) = ".") + 1, Len(s)))

allowedTypes ==
    {"audio/mpeg", "audio/mp3", "audio/wav", "audio/ogg", "audio/aac",
     "audio/m4a", "audio/mp4", "audio/x-m4a", "audio/flac"}
allowedExtensions == {"mp3", "wav", "ogg", "aac", "m4a", "flac"}
maxSize == 524288000

\* validateAudioFile: the message of the Error it throws, '' when it returns
validateAudioFile(file) ==
    LET hasValidMime == file.type # "" /\ file.type \in allowedTypes
        extension == IF file.name # "" /\ Includes(file.name, ".")
                     THEN toLowerCase(LastPart(file.name))
                     ELSE ""
        hasValidExtension == extension \in allowedExtensions
    IN IF ~hasValidMime /\ ~hasValidExtension
       THEN "Invalid file type. Please upload an audio file."
       ELSE IF file.size > maxSize
            THEN "File too large. Please upload a file smaller than 500MB."
            ELSE ""

\* { code: 1, transcript: obj.transcript || text || '', words: [...] }
LegacyResult(transcript, words) ==
    JObj([code |-> JNum(1), transcript |-> transcript, words |-> words])

\* ApiService.uploadAudio, given the network's answer
uploadAudio(net) ==
    IF net.kind = "error" THEN Threw(net.message)
    ELSE IF ~IsOk(net.status)
    THEN Threw(IF net.body.text # "" /\ net.body.strict # ParseFail
               THEN StrOr(Prop(net.body.strict, "message"),
                          "HTTP error! status: " \o ToString(net.status))
               ELSE "HTTP error! status: " \o ToString(net.status))
    ELSE LET obj == IF net.body.text = "" THEN EmptyObject ELSE net.body.strict IN
         IF obj = ParseFail
         THEN Returned(LegacyResult(JStr(net.body.text), JArr(<<>>)))
         ELSE IF obj.t \in {"obj", "arr"}
         THEN IF Prop(obj, "code") # JUndef
              THEN Returned(obj)
              ELSE Returned(LegacyResult(
                      IF Truthy(Prop(obj, "transcript")) THEN Prop(obj, "transcript")
                      ELSE JStr(net.body.text),
                      IF Prop(obj, "words").t = "arr" THEN Prop(obj, "words")
                      ELSE JArr(<<>>)))
         ELSE Returned(LegacyResult(JStr(net.body.text), JArr(<<>>)))

\* the word texts of a list of parsed words, as JSON.stringify lists them
RECURSIVE WordsJson(_)
WordsJson(words) ==
    IF Len(words) = 0 THEN ""
    ELSE "{\"word\": \"" \o WordText(Head(words)) \o "\"}"
         \o (IF Len(words) > 1 THEN ", " ELSE "") \o WordsJson(Tail(words))

\* buildCombinedTranscript: JSON.stringify({transcript, words}, null, 2), with
\* the words shown by their text
buildCombinedTranscript(transcript, words) ==
    "{\"transcript\": \"" \o (IF transcript.t = "str" THEN transcript.s ELSE "")
    \o "\", \"words\": [" \o (IF words.t = "arr" THEN WordsJson(words.a) ELSE "")
    \o "]}"

\* the record id of the q-th processAudioFile invocation: ids of the popup
\* and of the service worker are drawn the same way and never coincide here
PopupId(q) == NumUploads + q

popupPendingRecord(q) ==
    [id |-> PopupId(q),
     filename |-> OrElse(pop[q].file.name, "audio.m4a"),
     createdAt |-> pop[q].at, updatedAt |-> JUndef,
     status |-> "pending", transcript |-> "", words |-> <<>>, error |-> NULL]

\* transcripts.map(t => t.id === id ? {...t, status: 'success', ...} : t)
PopupSuccess(list, id, result) ==
    [i \in 1..Len(list) |->
        IF list[i].id = id
        THEN [list[i] EXCEPT
                !.status = "success",
                !.transcript = buildCombinedTranscript(Prop(result, "transcript"),
                                                       Prop(result, "words")),
                !.words = IF Prop(result, "words").t = "arr"
                          THEN Prop(result, "words").a ELSE <<>>,
                !.error = NULL]
        ELSE list[i]]

\* FirstPending with the first record that is not an error record
FirstNotError(list) ==
    IF \E i \in 1..Len(list) : list[i].status # "error"
    THEN CHOOSE i \in 1..Len(list) :
            /\ list[i].status # "error"
            /\ \A j \in 1..(i - 1) : list[j].status = "error"
    ELSE 0

\* transcripts.findIndex(t => t.status === 'pending'), 0 for -1
FirstPending(list) ==
    IF \E i \in 1..Len(list) : list[i].status = "pending"
    THEN CHOOSE i \in 1..Len(list) :
            /\ list[i].status = "pending"
            /\ \A j \in 1..(i - 1) : list[j].status # "pending"
    ELSE 0

\* transcripts[idx] = { ...transcripts[idx], status: 'error', error: message }
MarkError(list, idx, message) ==
    [list EXCEPT ![idx] = [@ EXCEPT !.status = "error", !.error = message]]

\* the catch block of processAudioFile up to its first await
PopupCaught(rec, message) ==
    IF Includes(message, "tokens") \/ Includes(message, "quota")
    THEN [rec EXCEPT !.pc = "done", !.message = message, !.showTokenWarning = TRUE]
    ELSE [rec EXCEPT !.pc = "c_get", !.message = message]

popupFrame ==
    <<up, edit, edits, del, deletes, deleted, rl, authToken, auth, userData,
      norm, session>>

\* processAudioFile(file) up to its first await
ProcessAudioFile(q, files) ==
    /\ pop[q].pc = "idle"
    /\ IF q = 1 THEN TRUE ELSE pop[q - 1].pc # "idle"
    /\ \E file \in files :
          pop' = [pop EXCEPT ![q] =
                    IF validateAudioFile(file) # ""
                    THEN PopupCaught([@ EXCEPT !.file = file], validateAudioFile(file))
                    ELSE [@ EXCEPT !.pc = "get", !.file = file]]
    /\ UNCHANGED <<transcripts, faults, popupFrame>>

\* chrome.storage.local.get(['authToken', 'transcripts']) and the token test
PopupGet(q) ==
    /\ pop[q].pc = "get"
    /\ \/ /\ pop' = [pop EXCEPT ![q] =
                       IF authToken = Undefined \/ authToken = ""
                       THEN PopupCaught(@, "Authentication required")
                       ELSE [@ EXCEPT !.pc = "ins_set", !.token = authToken,
                                      !.snap = transcripts, !.at = now]]
          /\ UNCHANGED faults
       \/ /\ CanFault
          /\ faults' = faults + 1
          /\ pop' = [pop EXCEPT ![q] = PopupCaught(@, StorageErrorMessage)]
    /\ UNCHANGED <<transcripts, popupFrame>>

\* set({ transcripts: [pendingRecord, ...existing] }), loadTranscripts
PopupInsert(q) ==
    /\ pop[q].pc = "ins_set"
    /\ \/ /\ transcripts' = <<popupPendingRecord(q)>> \o pop[q].snap
          /\ pop' = [pop EXCEPT ![q].pc = "upload", ![q].stored = TRUE,
                                ![q].snap = <<>>]
          /\ UNCHANGED faults
       \/ /\ CanFault
          /\ faults' = faults + 1
          /\ pop' = [pop EXCEPT ![q] = PopupCaught([@ EXCEPT !.snap = <<>>],
                                                   StorageErrorMessage)]
          /\ UNCHANGED transcripts
    /\ UNCHANGED popupFrame

\* await ApiService.uploadAudio and the test of result.code
PopupUpload(q, nets) ==
    /\ pop[q].pc = "upload"
    /\ \E net \in nets :
          LET r == uploadAudio(net)
              sent == [pop[q] EXCEPT !.net = net, !.posts = @ + 1]
          IN pop' = [pop EXCEPT ![q] =
                       IF r.threw THEN PopupCaught(sent, r.message)
                       ELSE IF Prop(r.value, "code") # JNum(1)
                       THEN PopupCaught([sent EXCEPT !.result = r.value],
                                        StrOr(Prop(r.value, "message"), "Upload failed"))
                       ELSE [sent EXCEPT !.pc = "s_get", !.result = r.value]]
    /\ UNCHANGED <<transcripts, faults, popupFrame>>

\* the storage get of the success update
PopupSuccessGet(q) ==
    /\ pop[q].pc = "s_get"
    /\ \/ /\ pop' = [pop EXCEPT ![q].pc = "s_set", ![q].snap = transcripts]
          /\ UNCHANGED faults
       \/ /\ CanFault
          /\ faults' = faults + 1
          /\ pop' = [pop EXCEPT ![q] = PopupCaught(@, StorageErrorMessage)]
    /\ UNCHANGED <<transcripts, popupFrame>>

\* the storage set of the success update, loadTranscripts
PopupSuccessSet(q) ==
    /\ pop[q].pc = "s_set"
    /\ \/ /\ transcripts' = PopupSuccess(pop[q].snap, PopupId(q), pop[q].result)
          /\ pop' = [pop EXCEPT ![q].pc = "done", ![q].snap = <<>>]
          /\ UNCHANGED faults
       \/ /\ CanFault
          /\ faults' = faults + 1
          /\ pop' = [pop EXCEPT ![q] = PopupCaught([@ EXCEPT !.snap = <<>>],
                                                   StorageErrorMessage)]
          /\ UNCHANGED transcripts
    /\ UNCHANGED popupFrame

\* the catch block: the storage get, findIndex; showError when nothing is pending
PopupCatchGet(q) ==
    /\ pop[q].pc = "c_get"
    /\ \/ /\ pop' = [pop EXCEPT ![q] =
                       IF FirstPending(transcripts) = 0
                       THEN [@ EXCEPT !.pc = "done", !.shownError = pop[q].message]
                       ELSE [@ EXCEPT !.pc = "c_set", !.snap = transcripts]]
          /\ UNCHANGED faults
       \/ /\ CanFault
          /\ faults' = faults + 1
          /\ pop' = [pop EXCEPT ![q] = [@ EXCEPT !.pc = "done",
                                                 !.shownError = pop[q].message]]
    /\ UNCHANGED <<transcripts, popupFrame>>

\* the catch block: the storage set, loadTranscripts, showError
PopupCatchSet(q) ==
    /\ pop[q].pc = "c_set"
    /\ pop' = [pop EXCEPT ![q] = [@ EXCEPT !.pc = "done", !.snap = <<>>,
                                           !.shownError = pop[q].message]]
    /\ \/ /\ transcripts' = MarkError(pop[q].snap, FirstPending(pop[q].snap),
                                      pop[q].message)
          /\ UNCHANGED faults
       \/ /\ CanFault
          /\ faults' = faults + 1
          /\ UNCHANGED transcripts
    /\ UNCHANGED popupFrame

PopupFiles ==
    {[name |-> "a.m4a", type |-> "audio/m4a", size |-> 3],
     [name |-> "B.MP3", type |-> "", size |-> 3],
     [name |-> "", type |-> "audio/mpeg", size |-> 0],
     [name |-> "notes.txt", type |-> "text/plain", size |-> 3],
     [name |-> "big.m4a", type |-> "audio/m4a", size |-> maxSize + 1]}

PopupNets ==
    {FetchError("Failed to fetch"), Response(200, BodyGood),
     Response(200, BodyQuota), Response(500, BodyMessage),
     Response(503, BodyText)}

(***************************************************************************)
(* The popup's session: signInWithGoogle (getAuthToken, fetchUserInfo) and *)
(* logout.  The calls of chrome.identity and of the revoke endpoint keep   *)
(* no state of this model; consecutive awaits on them are one step.        *)
(***************************************************************************)
sessionFrame ==
    <<up, edit, edits, del, deletes, deleted, rl, pop, auth, norm, listed,
      cleanup, listener>>

\* signInWithGoogle up to the await in getAuthToken(false)
SignInWithGoogle ==
    /\ signIn.pc = "idle"
    /\ signIn' = [signIn EXCEPT !.pc = "identity",
                                !.afterLogout = (signOut.pc = "done")]
    /\ UNCHANGED <<transcripts, faults, authToken, user, isAuthenticated,
                   userData, signOut, sessionFrame>>

\* the callback of chrome.identity.getAuthToken({interactive: true}): a token,
\* or a rejection that ends in showError
SignInIdentity ==
    /\ signIn.pc = "identity"
    /\ \E host \in HostAnswers :
          signIn' = IF host = "token"
                    THEN [signIn EXCEPT !.pc = "set_token", !.token = "new"]
                    ELSE [signIn EXCEPT !.pc = "done", !.shownError = TRUE]
    /\ UNCHANGED <<transcripts, faults, authToken, user, isAuthenticated,
                   userData, signOut, sessionFrame>>

\* getAuthToken: chrome.storage.local.set({ authToken: token })
SignInSetToken ==
    /\ signIn.pc = "set_token"
    /\ \/ /\ authToken' = signIn.token
          /\ signIn' = [signIn EXCEPT !.pc = "userinfo"]
          /\ UNCHANGED faults
       \/ /\ CanFault
          /\ faults' = faults + 1
          /\ signIn' = [signIn EXCEPT !.pc = "done", !.shownError = TRUE]
          /\ UNCHANGED authToken
    /\ UNCHANGED <<transcripts, user, isAuthenticated, userData, signOut,
                   sessionFrame>>

\* what the userinfo endpoint does: fetch or response.json() rejects, or a
\* response with a status
UserInfoAnswers == {"reject", "200", "401", "500"}

\* fetchUserInfo up to its storage set, to getAuthToken(true), or to its end;
\* fetches counts the calls up to MaxUserInfoFetches and stays there
SignInUserInfo ==
    /\ signIn.pc = "userinfo"
    /\ \E answer \in UserInfoAnswers :
          /\ signIn' = [signIn EXCEPT
                          !.fetches = IF @ < MaxUserInfoFetches THEN @ + 1 ELSE @,
                          !.pc = IF answer = "200" THEN "store"
                                 ELSE IF answer = "401" THEN "force_get"
                                 ELSE "done",
                          !.shownError = answer \notin {"200", "401"}]
    /\ UNCHANGED <<transcripts, faults, authToken, user, isAuthenticated,
                   userData, signOut, sessionFrame>>

\* getAuthToken(true): the storage get and removeCachedAuthToken; a failure is
\* caught and not fatal
SignInForceGet ==
    /\ signIn.pc = "force_get"
    /\ signIn' = [signIn EXCEPT !.pc = "identity", !.force = TRUE]
    /\ \/ UNCHANGED faults
       \/ /\ CanFault
          /\ faults' = faults + 1
    /\ UNCHANGED <<transcripts, authToken, user, isAuthenticated, userData,
                   signOut, sessionFrame>>

\* fetchUserInfo: set({ user, isAuthenticated: true, authToken: token })
SignInStore ==
    /\ signIn.pc = "store"
    /\ \/ /\ user' = "user"
          /\ isAuthenticated' = TRUE
          /\ authToken' = signIn.token
          /\ signIn' = [signIn EXCEPT !.pc = "done", !.at = cleanup.day]
          /\ UNCHANGED faults
       \/ /\ CanFault
          /\ faults' = faults + 1
          /\ signIn' = [signIn EXCEPT !.pc = "done", !.shownError = TRUE]
          /\ UNCHANGED <<user, isAuthenticated, authToken>>
    /\ UNCHANGED <<transcripts, userData, signOut, sessionFrame>>

\* logout: the storage get of authToken; a rejection ends in the catch block
LogoutGet ==
    /\ signOut.pc = "idle"
    /\ \/ /\ signOut' = [signOut EXCEPT !.pc = "external", !.token = authToken]
          /\ UNCHANGED faults
       \/ /\ CanFault
          /\ faults' = faults + 1
          /\ signOut' = [signOut EXCEPT !.pc = "done"]
    /\ UNCHANGED <<transcripts, authToken, user, isAuthenticated, userData,
                   signIn, sessionFrame>>

\* logout: removeCachedAuthToken and the revoke request (for a stored token,
\* failures swallowed), then clearAllCachedAuthTokens
LogoutExternal ==
    /\ signOut.pc = "external"
    /\ signOut' = [signOut EXCEPT !.pc = "clear"]
    /\ UNCHANGED <<transcripts, faults, authToken, user, isAuthenticated,
                   userData, signIn, sessionFrame>>

\* logout: chrome.storage.local.clear(); a rejection ends in the catch block
LogoutClear ==
    /\ signOut.pc = "clear"
    /\ \/ /\ transcripts' = <<>>
          /\ authToken' = Undefined
          /\ user' = Undefined
          /\ isAuthenticated' = FALSE
          /\ userData' = JNull
          /\ signOut' = [signOut EXCEPT !.pc = "done", !.cleared = TRUE]
          /\ UNCHANGED faults
       \/ /\ CanFault
          /\ faults' = faults + 1
          /\ signOut' = [signOut EXCEPT !.pc = "done"]
          /\ UNCHANGED <<transcripts, authToken, user, isAuthenticated, userData>>
    /\ UNCHANGED <<signIn, sessionFrame>>

(***************************************************************************)
(* The daily cleanup callback of the service worker (setInterval).  Times  *)
(* of this part are in days: thirtyDays is 30 * 24 * 60 * 60 * 1000 ms.    *)
(* The logSecurity calls of the callback are left out.                     *)
(***************************************************************************)
thirtyDays == 30

cleanupFrame ==
    <<up, edit, edits, del, deletes, deleted, rl, pop, auth, norm, listed,
      signIn, signOut, listener>>

\* Date.now() - result.userData.timestamp > thirtyDays, false for a timestamp
\* that is no number (the difference is NaN)
isExpired(data, today) ==
    /\ Prop(data, "timestamp").t = "num"
    /\ today - Prop(data, "timestamp").n > thirtyDays

\* a day passes and the interval fires
CleanupFire ==
    /\ cleanup.pc = "idle"
    /\ cleanup.day < MaxDays
    /\ cleanup' = [cleanup EXCEPT !.pc = "get", !.day = @ + 1]
    /\ UNCHANGED <<transcripts, faults, authToken, user, isAuthenticated,
                   userData, cleanupFrame>>

\* chrome.storage.local.get(['userData']) and the test of the timestamp
CleanupGet ==
    /\ cleanup.pc = "get"
    /\ \/ /\ cleanup' = IF Truthy(userData) /\ isExpired(userData, cleanup.day)
                         THEN [cleanup EXCEPT !.pc = "clear"]
                         ELSE [cleanup EXCEPT !.pc = "idle", !.runs = @ + 1,
                                              !.ranAt = cleanup.day]
          /\ UNCHANGED faults
       \/ /\ CanFault
          /\ faults' = faults + 1
          /\ cleanup' = [cleanup EXCEPT !.pc = "idle", !.runs = @ + 1,
                                        !.ranAt = cleanup.day]
    /\ UNCHANGED <<transcripts, authToken, user, isAuthenticated, userData,
                   cleanupFrame>>

\* chrome.storage.local.clear()
CleanupClear ==
    /\ cleanup.pc = "clear"
    /\ cleanup' = [cleanup EXCEPT !.pc = "idle", !.runs = @ + 1,
                                  !.ranAt = cleanup.day]
    /\ \/ /\ transcripts' = <<>>
          /\ authToken' = Undefined
          /\ user' = Undefined
          /\ isAuthenticated' = FALSE
          /\ userData' = JNull
          /\ UNCHANGED faults
       \/ /\ CanFault
          /\ faults' = faults + 1
          /\ UNCHANGED <<transcripts, authToken, user, isAuthenticated, userData>>
    /\ UNCHANGED cleanupFrame

(***************************************************************************)
(* The chrome.runtime.onMessage listener with SecurityManager               *)
(* .validateRequest, and the dispatch of handleMessage.  A request and a    *)
(* sender are parsed values; the listener answers one message at a time.    *)
(***************************************************************************)
runtimeId == "ext"

\* validateRequest with the comparison of sender.id with chrome.runtime.id
\* left out
validateRequestAnySender(request, sender) ==
    IF ~Truthy(Prop(sender, "id"))
    THEN [valid |-> FALSE, event |-> "unauthorized_sender"]
    ELSE IF ~Truthy(request) \/ request.t \notin {"obj", "arr"}
    THEN [valid |-> FALSE, event |-> "invalid_request_structure"]
    ELSE [valid |-> TRUE, event |-> "none"]

\* validateRequest(request, sender): its result and the event it logs
validateRequest(request, sender) ==
    IF ~Truthy(Prop(sender, "id")) \/ Prop(sender, "id") # JStr(runtimeId)
    THEN [valid |-> FALSE, event |-> "unauthorized_sender"]
    ELSE IF ~Truthy(request) \/ request.t \notin {"obj", "arr"}
    THEN [valid |-> FALSE, event |-> "invalid_request_structure"]
    ELSE [valid |-> TRUE, event |-> "none"]

\* the listener's record of a message that has just arrived
Received(sender, request) ==
    [listener EXCEPT !.n = @ + 1, !.sender = sender, !.request = request,
                     !.handled = FALSE, !.responses = <<>>]

\* sendResponse(response) when the promise of handleMessage is settled
Answered(l, response) ==
    [l EXCEPT !.pc = "done", !.handled = TRUE, !.responses = Append(@, response)]

\* handleMessage is called and its promise is pending
Awaiting(l) == [l EXCEPT !.pc = "awaiting", !.handled = TRUE]

\* data?.id of a deleteTranscript message, NoId when it is missing
IdOf(data) == IF Prop(data, "id").t = "num" THEN Prop(data, "id").n ELSE NoId

\* the listener rejects the message: sendResponse({ error: 'Unauthorized
\* request' }) and return
OnMessageUnauthorized(senders, requests) ==
    /\ listener.pc \in {"idle", "done"}
    /\ listener.n < MaxMessages
    /\ \E sender \in senders, request \in requests :
          LET v == validateRequest(request, sender) IN
          /\ ~v.valid
          /\ listener' = [Received(sender, request) EXCEPT
                             !.pc = "done",
                             !.responses = <<"Unauthorized request">>]
          /\ securityLog' = LogSecurity(securityLog, v.event)
    /\ UNCHANGED <<transcripts, faults, up, edit, edits, del, deletes, deleted,
                   now, rateLimitData, accepted, last, calls, pop, authToken,
                   auth, userData, norm, listed, user, isAuthenticated, signIn,
                   signOut, cleanup>>

\* case 'validateAuth': handleAuthValidation up to its return or to the await
\* of validateToken
OnMessageValidateAuth(senders, requests) ==
    /\ listener.pc \in {"idle", "done"}
    /\ listener.n < MaxMessages
    /\ \E sender \in senders, request \in requests :
          LET data == Prop(Prop(request, "data"), "userData") IN
          /\ validateRequest(request, sender).valid
          /\ Prop(request, "action") = JStr("validateAuth")
          /\ Truthy(data) /\ Truthy(Prop(data, "accessToken"))
          /\ Prop(data, "id").t = "num" /\ Prop(data, "id").n \in Users
          /\ HandleAuthValidationStep(Prop(data, "id").n)
          /\ listener' = IF checkRateLimit(rateLimitData, Prop(data, "id").n, now).allowed
                         THEN Awaiting(Received(sender, request))
                         ELSE Answered(Received(sender, request), "result")
    /\ UNCHANGED <<transcripts, faults, up, edit, edits, del, deletes, deleted,
                   pop, authToken, auth, userData, norm, listed, user,
                   isAuthenticated, signIn, signOut, cleanup>>

\* case 'refreshToken': handleTokenRefresh up to its return or to the first
\* await of refreshTokenIfNeeded
OnMessageRefreshToken(senders, requests) ==
    /\ listener.pc \in {"idle", "done"}
    /\ listener.n < MaxMessages
    /\ \E sender \in senders, request \in requests :
          /\ validateRequest(request, sender).valid
          /\ Prop(request, "action") = JStr("refreshToken")
          /\ Prop(request, "data").t = "obj"
          /\ RefreshTokenIfNeededStep({Prop(Prop(request, "data"), "userData")})
          /\ listener' = IF auth'.pc = "done"
                         THEN Answered(Received(sender, request), "result")
                         ELSE Awaiting(Received(sender, request))
    /\ UNCHANGED <<transcripts, faults, up, edit, edits, del, deletes, deleted,
                   rl, pop, authToken, userData, norm, listed, user,
                   isAuthenticated, signIn, signOut, cleanup>>

\* case 'deleteTranscript' up to its return or to the await of the storage set
OnMessageDeleteTranscript(senders, requests) ==
    /\ listener.pc \in {"idle", "done"}
    /\ listener.n < MaxMessages
    /\ \E sender \in senders, request \in requests :
          /\ validateRequest(request, sender).valid
          /\ Prop(request, "action") = JStr("deleteTranscript")
          /\ DeleteTranscriptGetStep({IdOf(Prop(request, "data"))})
          /\ listener' = IF del'.pc = "set"
                         THEN Awaiting(Received(sender, request))
                         ELSE Answered(Received(sender, request), "result")
    /\ UNCHANGED <<rl, pop, authToken, auth, userData, norm, listed, user,
                   isAuthenticated, signIn, signOut, cleanup>>

\* case 'getTranscripts': the storage get resolves, or rejects, handleMessage
\* rejects and the listener's catch answers
OnMessageGetTranscripts(senders, requests) ==
    /\ listener.pc \in {"idle", "done"}
    /\ listener.n < MaxMessages
    /\ \E sender \in senders, request \in requests :
          /\ validateRequest(request, sender).valid
          /\ Prop(request, "action") = JStr("getTranscripts")
          /\ \/ /\ listener' = Answered(Received(sender, request), "result")
                /\ UNCHANGED <<faults, securityLog>>
             \/ /\ CanFault
                /\ faults' = faults + 1
                /\ securityLog' = LogSecurity(securityLog, "message_handling_error")
                /\ listener' = Answered(Received(sender, request), "Internal error")
    /\ UNCHANGED <<transcripts, up, edit, edits, del, deletes, deleted,
                   now, rateLimitData, accepted, last, calls, pop, authToken,
                   auth, userData, norm, listed, user, isAuthenticated, signIn,
                   signOut, cleanup>>

\* case 'logSecurityEvent' without data (data.event throws a TypeError, the
\* listener's catch answers), and the default case
OnMessageOther(senders, requests) ==
    /\ listener.pc \in {"idle", "done"}
    /\ listener.n < MaxMessages
    /\ \E sender \in senders, request \in requests :
          /\ validateRequest(request, sender).valid
          /\ Prop(request, "action") \notin
                {JStr("validateAuth"), JStr("refreshToken"),
                 JStr("deleteTranscript"), JStr("getTranscripts")}
          /\ IF Prop(request, "action") = JStr("logSecurityEvent")
             THEN /\ Prop(request, "data") = JUndef
                  /\ securityLog' = LogSecurity(securityLog, "message_handling_error")
                  /\ listener' = Answered(Received(sender, request), "Internal error")
             ELSE /\ securityLog' = LogSecurity(securityLog, "unknown_action")
                  /\ listener' = Answered(Received(sender, request), "result")
    /\ UNCHANGED <<transcripts, faults, up, edit, edits, del, deletes, deleted,
                   now, rateLimitData, accepted, last, calls, pop, authToken,
                   auth, userData, norm, listed, user, isAuthenticated, signIn,
                   signOut, cleanup>>

\* the handler the listener waits for has returned
HandlerOver ==
    CASE Prop(listener.request, "action") = JStr("deleteTranscript") -> del.pc = "idle"
      [] Prop(listener.request, "action") = JStr("refreshToken") -> auth.pc = "done"
      [] OTHER -> TRUE

\* .then(response => sendResponse(response)) for a handler that had to wait
Respond ==
    /\ listener.pc = "awaiting"
    /\ HandlerOver
    /\ listener' = Answered(listener, "result")
    /\ UNCHANGED <<transcripts, faults, up, edit, edits, del, deletes, deleted,
                   rl, pop, authToken, auth, userData, norm, listed, user,
                   isAuthenticated, signIn, signOut, cleanup>>

\* the senders and requests of the messages
Senders ==
    {JObj([id |-> JStr(runtimeId)]), JObj([id |-> JStr("other")]), EmptyObject}

Requests ==
    {JUndef, JNull, JStr("getTranscripts"),
     JObj([action |-> JStr("getTranscripts")]),
     JObj([action |-> JStr("deleteTranscript"),
           data |-> JObj([id |-> JNum(NumUploads + 1)])]),
     JObj([action |-> JStr("deleteTranscript")]),
     JObj([action |-> JStr("validateAuth"),
           data |-> JObj([userData |-> JObj([id |-> JNum(1),
                                             accessToken |-> JStr("tok")])])]),
     JObj([action |-> JStr("refreshToken"),
           data |-> JObj([userData |-> JObj([id |-> JNum(1),
                                             accessToken |-> JStr("tok")])])]),
     JObj([action |-> JStr("logSecurityEvent")]),
     JObj([action |-> JStr("ping")])}

(***************************************************************************)
(* The normalizer applied to a parsed response.                            *)
(***************************************************************************)
\* the values a word's start and end take in a response
TimeValues ==
    {JUndef, JNull, JNum(0), JNum(7), JStr(""), JStr("  "), JStr("12"),
     JStr(" 7 "), JStr("abc")}

WordValues ==
    {JObj([word |-> w, start |-> a, end |-> b]) :
        w \in {JStr("hi "), JUndef}, a \in TimeValues, b \in TimeValues}

\* a word of a response with the text w and no times
TextWord(w) == JObj([word |-> JStr(w)])

\* the word lists of the responses that carry a transcript field or none
WordLists ==
    {<<>>,
     <<TextWord(" Hello")>>,
     <<TextWord(" Hello"), TextWord("  big\t"), TextWord(" world ")>>,
     <<TextWord("b"), TextWord("a")>>,
     <<JObj([word |-> JNum(7)]), JNull, TextWord(" up")>>}

\* what a response holds under `transcript` (JUndef: the key is missing)
TranscriptValues ==
    {JUndef, JNull, JNum(5), JStr(""), JStr("hi"), JStr(" hi  there ")}

\* what a response holds under `words` (JUndef: the key is missing)
WordsValues == {JUndef, JNull, JStr("none")} \cup {JArr(l) : l \in WordLists}

\* the object with the keys among transcript and words that are not undefined
ResponseObject(transcript, words) ==
    JObj([k \in {key \in {"transcript", "words"} :
                    IF key = "transcript" THEN transcript # JUndef
                    ELSE words # JUndef}
            |-> IF k = "transcript" THEN transcript ELSE words])

\* parsed responses: a bare word list, or an object with a word list, a
\* transcript or both
NormInputs ==
    {JArr(<<w>>) : w \in WordValues}
    \cup {JObj([words |-> JArr(<<w>>)]) : w \in WordValues}
    \cup {JArr(l) : l \in WordLists}
    \cup {ResponseObject(t, w) : t \in TranscriptValues, w \in WordsValues}

\* normalizeTranscriptionResponse(raw)
Normalize ==
    /\ norm.out = NoResponse
    /\ norm' = [norm EXCEPT !.out = normalizeTranscriptionResponse(norm.raw)]
    /\ UNCHANGED <<transcripts, faults, up, edit, edits, del, deletes, deleted,
                   rl, pop, authToken, auth, userData, session>>

(***************************************************************************)
(* Spec: the store under concurrent handlers.                              *)
(***************************************************************************)
Next ==
    \/ \E p \in Uploads : StartBackgroundUpload(p, {1}, StoreRequests)
    \/ \E p \in Uploads : SaveGet(p)
    \/ \E p \in Uploads : SaveSet(p)
    \/ \E p \in Uploads : Upload(p, StoreNets)
    \/ \E p \in Uploads : TermGet(p)
    \/ \E p \in Uploads : TermSet(p)
    \/ UpdateTranscriptGet
    \/ UpdateTranscriptSet
    \/ DeleteTranscriptGet
    \/ DeleteTranscriptSet

Spec == Init /\ [][Next]_vars

(***************************************************************************)
(* SpecGate: a startBackgroundUpload message with any data, answered by    *)
(* any network behaviour, while an earlier upload is under way.            *)
(***************************************************************************)
NextGate ==
    \/ StartBackgroundUpload(1, {1}, StoreRequests)
    \/ StartBackgroundUpload(2, {1}, AllRequests)
    \/ \E p \in {1, 2} : SaveGet(p)
    \/ \E p \in {1, 2} : SaveSet(p)
    \/ Upload(1, StoreNets)
    \/ Upload(2, AllNets)
    \/ \E p \in {1, 2} : TermGet(p)
    \/ \E p \in {1, 2} : TermSet(p)

SpecGate == Init /\ [][NextGate]_vars

(***************************************************************************)
(* SpecRL: validateAuth messages of several identities over time.          *)
(***************************************************************************)
NextRL ==
    \/ Tick
    \/ \E u \in Users : HandleAuthValidation(u)

SpecRL == Init /\ [][NextRL]_vars

(***************************************************************************)
(* SpecSubmitRL: one identity sends validateAuth messages and one          *)
(* startBackgroundUpload message.                                          *)
(***************************************************************************)
NextSubmitRL ==
    \/ Tick
    \/ HandleAuthValidation(1)
    \/ StartBackgroundUpload(1, {1}, StoreRequests)
    \/ SaveGet(1)
    \/ SaveSet(1)
    \/ Upload(1, StoreNets)
    \/ TermGet(1)
    \/ TermSet(1)

SpecSubmitRL == Init /\ [][NextSubmitRL]_vars

(***************************************************************************)
(* SpecPopup: the popup uploads files, signed in or not, with any answer   *)
(* of the service.                                                         *)
(***************************************************************************)
InitPopup ==
    /\ InitCore
    /\ user = Undefined
    /\ isAuthenticated = FALSE
    /\ authToken \in {Undefined, "tok"}
    /\ userData = JNull
    /\ norm = NoNorm

NextPopup ==
    \/ \E q \in Popups : ProcessAudioFile(q, PopupFiles)
    \/ \E q \in Popups : PopupGet(q)
    \/ \E q \in Popups : PopupInsert(q)
    \/ \E q \in Popups : PopupUpload(q, PopupNets)
    \/ \E q \in Popups : PopupSuccessGet(q)
    \/ \E q \in Popups : PopupSuccessSet(q)
    \/ \E q \in Popups : PopupCatchGet(q)
    \/ \E q \in Popups : PopupCatchSet(q)

SpecPopup == InitPopup /\ [][NextPopup]_vars

(***************************************************************************)
(* SpecAuth: one refreshTokenIfNeeded call, with any userData, any answer  *)
(* of the tokeninfo endpoint and of chrome.identity.                       *)
(***************************************************************************)
\* what storage holds under 'userData' before the call
StoredUserDatas == {JNull, JObj([id |-> JNum(1), accessToken |-> JStr("tok")])}

InitAuth ==
    /\ InitCore
    /\ user = Undefined
    /\ isAuthenticated = FALSE
    /\ authToken = Undefined
    /\ userData \in StoredUserDatas
    /\ norm = NoNorm

NextAuth ==
    \/ RefreshTokenIfNeeded(UserDatas)
    \/ ValidateToken(AuthNets)
    \/ GetAuthToken
    \/ StoreUserData

SpecAuth == InitAuth /\ [][NextAuth]_vars

(***************************************************************************)
(* SpecNorm: normalizeTranscriptionResponse on the parsed responses of     *)
(* NormInputs.                                                             *)
(***************************************************************************)
InitNorm ==
    /\ InitCore
    /\ user = Undefined
    /\ isAuthenticated = FALSE
    /\ authToken = Undefined
    /\ userData = JNull
    /\ norm \in {[raw |-> r, out |-> NoResponse] : r \in NormInputs}

NextNorm == Normalize

SpecNorm == InitNorm /\ [][NextNorm]_vars

(***************************************************************************)
(* SpecShared: the service worker and a signed-in popup write the same     *)
(* record list: one background upload, one processAudioFile invocation     *)
(* and an edit, with a service that answers well, fails, or cannot be      *)
(* reached.                                                                *)
(***************************************************************************)
SharedFiles == {[name |-> "a.m4a", type |-> "audio/m4a", size |-> 3]}

SharedNets ==
    {FetchError("Failed to fetch"), Response(200, BodyGood),
     Response(500, BodyMessage), Response(200, BodyTruncated)}

InitShared ==
    /\ InitCore
    /\ user = Undefined
    /\ isAuthenticated = FALSE
    /\ authToken = "tok"
    /\ userData = JNull
    /\ norm = NoNorm

NextShared ==
    \/ StartBackgroundUpload(1, {1}, StoreRequests)
    \/ SaveGet(1)
    \/ SaveSet(1)
    \/ Upload(1, SharedNets)
    \/ TermGet(1)
    \/ TermSet(1)
    \/ ProcessAudioFile(1, SharedFiles)
    \/ PopupGet(1)
    \/ PopupInsert(1)
    \/ PopupUpload(1, SharedNets)
    \/ PopupSuccessGet(1)
    \/ PopupSuccessSet(1)
    \/ PopupCatchGet(1)
    \/ PopupCatchSet(1)
    \/ UpdateTranscriptGet
    \/ UpdateTranscriptSet

SpecShared == InitShared /\ [][NextShared]_vars

(***************************************************************************)
(* SpecEdits: one background upload and the messages that edit and delete  *)
(* its record.                                                             *)
(***************************************************************************)
NextEdits ==
    \/ StartBackgroundUpload(1, {1}, StoreRequests)
    \/ SaveGet(1)
    \/ SaveSet(1)
    \/ Upload(1, SharedNets)
    \/ TermGet(1)
    \/ TermSet(1)
    \/ UpdateTranscriptGet
    \/ UpdateTranscriptSet
    \/ DeleteTranscriptGet
    \/ DeleteTranscriptSet

SpecEdits == Init /\ [][NextEdits]_vars

(***************************************************************************)
(* SpecList: the service worker and a signed-in popup insert records, a    *)
(* deleteTranscript message removes one and a getTranscripts message lists *)
(* the store.                                                              *)
(***************************************************************************)
NextList ==
    \/ StartBackgroundUpload(1, {1}, StoreRequests)
    \/ SaveGet(1)
    \/ SaveSet(1)
    \/ Upload(1, StoreNets)
    \/ TermGet(1)
    \/ TermSet(1)
    \/ ProcessAudioFile(1, SharedFiles)
    \/ PopupGet(1)
    \/ PopupInsert(1)
    \/ PopupUpload(1, StoreNets)
    \/ PopupSuccessGet(1)
    \/ PopupSuccessSet(1)
    \/ PopupCatchGet(1)
    \/ PopupCatchSet(1)
    \/ DeleteTranscriptGet
    \/ DeleteTranscriptSet
    \/ GetTranscripts

SpecList == InitShared /\ [][NextList]_vars

(***************************************************************************)
(* SpecSession: the store holds a completed sign-in; a popup that shows    *)
(* the signed-in view logs out and uploads a file, and a popup that still  *)
(* shows the sign-in view signs in.                                        *)
(***************************************************************************)
InitSession ==
    /\ InitCore
    /\ authToken = "tok"
    /\ user = "user"
    /\ isAuthenticated = TRUE
    /\ userData = JNull
    /\ norm = NoNorm

NextSession ==
    \/ SignInWithGoogle
    \/ SignInIdentity
    \/ SignInSetToken
    \/ SignInUserInfo
    \/ SignInForceGet
    \/ SignInStore
    \/ LogoutGet
    \/ LogoutExternal
    \/ LogoutClear
    \/ ProcessAudioFile(1, SharedFiles)
    \/ PopupGet(1)
    \/ PopupInsert(1)
    \/ PopupUpload(1, StoreNets)
    \/ PopupSuccessGet(1)
    \/ PopupSuccessSet(1)
    \/ PopupCatchGet(1)
    \/ PopupCatchSet(1)

SpecSession == InitSession /\ [][NextSession]_vars

\* SpecSignIn: SpecSession where every call a sign-in awaits (chrome.identity,
\* chrome.storage, the userinfo endpoint) is answered in the end
SpecSignIn ==
    /\ InitSession
    /\ [][NextSession]_vars
    /\ WF_vars(SignInIdentity)
    /\ WF_vars(SignInSetToken)
    /\ WF_vars(SignInUserInfo)
    /\ WF_vars(SignInForceGet)
    /\ WF_vars(SignInStore)

(***************************************************************************)
(* SpecCleanup: a user signs in through the popup and the days pass.  The  *)
(* store holds no userData, or the userData a refreshToken message left    *)
(* there, with or without a timestamp.                                     *)
(***************************************************************************)
CleanupUserDatas ==
    {JNull,
     JObj([id |-> JNum(1), accessToken |-> JStr("new")]),
     JObj([id |-> JNum(1), accessToken |-> JStr("new"), timestamp |-> JNum(0)])}

InitCleanup ==
    /\ InitCore
    /\ authToken = Undefined
    /\ user = Undefined
    /\ isAuthenticated = FALSE
    /\ userData \in CleanupUserDatas
    /\ norm = NoNorm

NextCleanup ==
    \/ SignInWithGoogle
    \/ SignInIdentity
    \/ SignInSetToken
    \/ SignInUserInfo
    \/ SignInForceGet
    \/ SignInStore
    \/ CleanupFire
    \/ CleanupGet
    \/ CleanupClear

SpecCleanup == InitCleanup /\ [][NextCleanup]_vars

(***************************************************************************)
(* SpecTimes: one background upload and an edit of its record while the    *)
(* clock runs.                                                             *)
(***************************************************************************)
NextTimes ==
    \/ StartBackgroundUpload(1, {1}, StoreRequests)
    \/ SaveGet(1)
    \/ SaveSet(1)
    \/ Upload(1, StoreNets)
    \/ TermGet(1)
    \/ TermSet(1)
    \/ UpdateTranscriptGet
    \/ UpdateTranscriptSet
    \/ Tick

SpecTimes == Init /\ [][NextTimes]_vars

(***************************************************************************)
(* SpecListener: messages of the extension itself and of other senders     *)
(* arrive at the listener while a signed-in popup uploads a file.           *)
(***************************************************************************)
NextListener ==
    \/ OnMessageUnauthorized(Senders, Requests)
    \/ OnMessageValidateAuth(Senders, Requests)
    \/ OnMessageRefreshToken(Senders, Requests)
    \/ OnMessageDeleteTranscript(Senders, Requests)
    \/ OnMessageGetTranscripts(Senders, Requests)
    \/ OnMessageOther(Senders, Requests)
    \/ Respond
    \/ DeleteTranscriptSet
    \/ ValidateToken({FetchError("Failed to fetch")})
    \/ GetAuthToken
    \/ StoreUserData
    \/ ProcessAudioFile(1, SharedFiles)
    \/ PopupGet(1)
    \/ PopupInsert(1)
    \/ PopupUpload(1, StoreNets)
    \/ PopupSuccessGet(1)
    \/ PopupSuccessSet(1)
    \/ PopupCatchGet(1)
    \/ PopupCatchSet(1)

SpecListener == InitShared /\ [][NextListener]_vars

(***************************************************************************)
(* Properties.                                                             *)
(***************************************************************************)
\* the records of the list with the id
WithId(list, id) == {i \in 1..Len(list) : list[i].id = id}

\* the status the list holds for the id, "absent" when it holds no record
StatusOf(list, id) ==
    IF WithId(list, id) = {} THEN "absent"
    ELSE list[CHOOSE i \in WithId(list, id) : TRUE].status

\* startUpload was called for the p-th message
Accepted(p) == up[p].pc # "idle" /\ AcceptsUpload(up[p].req)

\* the guard answered {success: false, message: 'Missing file data'}
Rejected(p) ==
    /\ up[p].pc = "done"
    /\ up[p].ret = [kind |-> "result", success |-> FALSE, id |-> 0,
                    message |-> "Missing file data"]

\* startUpload returned {success, id}
ReturnedId(p) == up[p].ret.kind = "result" /\ up[p].ret.id = p

\* C1: when the uploads have all run to their end, with no storage failure,
\* edit or delete in the run, the store holds the record of each upload, in the
\* terminal state that upload wrote.
C1_NoLostUpdate ==
    (/\ faults = 0 /\ edits = 0 /\ deletes = 0
     /\ \A p \in Uploads : up[p].pc = "done" /\ ReturnedId(p))
    => \A p \in Uploads :
          \E i \in 1..Len(transcripts) : transcripts[i] = up[p].term

\* C2: in every step, the stored status of a record that stays in the store
\* either stays as it is or goes from pending to success or to error.
C2_StatusChangesOnce ==
    [][\A id \in Uploads :
          LET before == StatusOf(transcripts, id)
              after == StatusOf(transcripts', id)
          IN (before # "absent" /\ after # "absent" /\ before # after)
             => (before = "pending" /\ after \in {"success", "error"})]_vars

\* uploadPayload of the p-th upload has settled (the network exchange is over)
ExchangeDone(p) == up[p].pc \in {"term_get", "term_set", "done"}

C4_OneRecordPerUpload ==
    faults = 0 =>
      /\ \A id \in Uploads : Cardinality(WithId(transcripts, id)) <= 1
      /\ \A p \in Uploads :
            (Accepted(p) /\ up[p].pc \notin {"save_get", "save_set"}
             /\ p \notin deleted)
            => Cardinality(WithId(transcripts, p)) = 1

\* C5: startUpload never rejects, and once it is over the record of the upload
\* is not left pending.
C5_FailuresBecomeErrorRecords ==
    \A p \in Uploads :
       /\ up[p].ret.kind # "error"
       /\ (up[p].pc = "done" /\ Accepted(p) /\ edits = 0 /\ deletes = 0)
          => StatusOf(transcripts, p) \in {"absent", "success", "error"}

EmptyFilename(r) == r.filename = Undefined \/ r.filename = ""

\* the bytes of audio a message carries
PayloadBytes(r) ==
    IF hasDu(r.dataUrl) THEN DataUrlBytes(r.dataUrl)
    ELSE IF r.arrayBuffer.kind = "ArrayBuffer" THEN r.arrayBuffer.byteLength
    ELSE IF r.arrayBuffer.kind = "Blob" THEN r.arrayBuffer.size
    ELSE 0

\* the message carries neither a buffer (ArrayBuffer, Blob) nor a data: URL
NoPayload(r) ==
    /\ r.arrayBuffer.kind \notin {"ArrayBuffer", "Blob"}
    /\ (r.dataUrl = Undefined \/ ~StartsWith(r.dataUrl, "data:"))

C7_MissingCredentialRejected ==
    \A p \in Uploads :
       /\ (up[p].pc # "idle" /\ up[p].req.token \in {Undefined, ""})
          => /\ Rejected(p)
             /\ WithId(transcripts, p) = {}
             /\ up[p].posts = 0
       /\ up[p].posts > 0 => up[p].bearer

\* C8: a startBackgroundUpload message of an identity with maxRequests accepted
\* requests inside the window is rejected, with no record, and logged.
C8_UploadPassesRateLimiter ==
    \A p \in Uploads :
       (up[p].pc # "idle" /\ up[p].before >= maxRequests)
       => /\ up[p].pc = "done"
          /\ ~ReturnedId(p)
          /\ WithId(transcripts, p) = {}
          /\ securityLog["rate_limit_exceeded"] > 0

\* C9: the latest checkRateLimit call returned true exactly when fewer than
\* maxRequests calls of its identity had been accepted in the windowMs before
\* it, and no window of windowMs holds more than maxRequests accepted calls of
\* one identity.
C9_RateLimitWindow ==
    /\ last.user \in Users => (last.allowed <=> last.before < maxRequests)
    /\ \A u \in Users : \A i \in 1..Len(accepted[u]) :
          Cardinality({j \in 1..Len(accepted[u]) :
                          /\ accepted[u][i] <= accepted[u][j]
                          /\ accepted[u][j] < accepted[u][i] + windowMs})
          <= maxRequests

\* an identity was accepted maxRequests times, rejected, and accepted again
\* after the window
C9_Witness ==
    \E u \in Users :
       /\ last.user = u
       /\ last.allowed
       /\ Len(accepted[u]) > maxRequests
       /\ securityLog["rate_limit_exceeded"] > 0

\* C10: the record of an upload that the service answered with a non-success
\* status and a JSON body with a message is an error record with that message,
\* and one request was sent.
C10_ServerMessageRecorded ==
    \A p \in Uploads :
       (/\ up[p].pc = "done"
        /\ faults = 0
        /\ up[p].net.kind = "response"
        /\ ~IsOk(up[p].net.status)
        /\ up[p].net.body.strict # ParseFail
        /\ Prop(up[p].net.body.strict, "message").t = "str")
       => /\ up[p].posts = 1
          /\ \A i \in WithId(transcripts, p) :
                /\ transcripts[i].status = "error"
                /\ transcripts[i].error = Prop(up[p].net.body.strict, "message").s

\* the service answered with a success status and a body that neither parse of
\* parseTranscriptionResponseText reads
Unparseable(p) ==
    /\ up[p].net.kind = "response"
    /\ IsOk(up[p].net.status)
    /\ up[p].net.body.strict = ParseFail
    /\ up[p].net.body.repaired = ParseFail

C12_QuotaIsNotSuccess ==
    \A p \in Uploads :
       (/\ up[p].net.kind = "response"
        /\ IsOk(up[p].net.status)
        /\ Prop(up[p].net.body.strict, "code") = JNum(2))
       => /\ up[p].term.status # "success"
          /\ \A i \in WithId(transcripts, p) : transcripts[i].status # "success"
          /\ up[p].ret.kind = "result" => ~up[p].ret.success

\* C13: once a processAudioFile invocation that stored its pending record is
\* over, the record it created is not pending.
C13_PopupRecordBecomesTerminal ==
    \A q \in Popups :
       (pop[q].pc = "done" /\ pop[q].stored /\ faults = 0
        /\ \A o \in Popups \ {q} : pop[o].pc = "idle")
       => StatusOf(transcripts, PopupId(q)) # "pending"

\* the parsed answer of the tokeninfo endpoint in the validateToken call
TokenInfoOf(a) == IF a.net.kind = "response" THEN a.net.body.strict ELSE ParseFail

HasErrorField(info) == Prop(info, "error") # JUndef

\* expires_in is a number, or a string of decimal digits
NumericExpiresIn(info) ==
    LET e == Prop(info, "expires_in") IN
    \/ e.t = "num"
    \/ e.t = "str" /\ e.s # "" /\ AllDigits(e.s)

ExpiresInValue(info) ==
    LET e == Prop(info, "expires_in") IN
    IF e.t = "num" THEN e.n ELSE DecimalValue(e.s)

C15_FailsClosed ==
    (/\ auth.validated
     /\ \/ auth.net.kind = "error"
        \/ /\ auth.net.kind = "response"
           /\ ~HasErrorField(TokenInfoOf(auth))
           /\ ~NumericExpiresIn(TokenInfoOf(auth)))
    => ~auth.valid

\* C16: a validateToken call that returned false made exactly one logSecurity
\* call with invalid_token, token_expiring_soon or token_validation_error.
C16_FalseIsLogged ==
    (auth.validated /\ ~auth.valid)
    => securityLog["invalid_token"] + securityLog["token_expiring_soon"]
       + securityLog["token_validation_error"] = 1

\* C17: refreshTokenIfNeeded returns its input when validation succeeded; it
\* returns another credential only when the host delivered a token, and that
\* credential is the one in storage; when the host delivered no token it
\* returns null, has logged token_refresh_failed and storage is as it was.
C17_RefreshOutcome ==
    (auth.pc = "done" /\ auth.validated)
    => /\ auth.valid => auth.ret.value = auth.input
       /\ (~auth.valid /\ auth.ret.value # JNull)
          => /\ auth.host = "token"
             /\ Prop(auth.ret.value, "accessToken") = JStr("new")
             /\ userData = auth.ret.value
       /\ (~auth.valid /\ auth.host # "token")
          => /\ auth.ret.value = JNull
             /\ securityLog["token_refresh_failed"] = 1
             /\ userData \in StoredUserDatas

\* C18: the step in which deleteTranscript writes the store removes the
\* records with its id from the store as it is at that moment and leaves the
\* other records as they are, in their order.
C18_DeleteRemovesOnlyItsRecord ==
    [][(del.pc = "set" /\ del'.pc = "idle" /\ faults' = faults)
       => transcripts' = RemoveById(transcripts, del.id)]_vars

\* C19: the step in which updateTranscript writes the store changes at most
\* the transcript, filename and updatedAt of the record with its id; the other fields of
\* that record and all other records stay as they are in the store at that
\* moment, and nothing changes when no record has the id.
C19_UpdateChangesOnlyItsFields ==
    [][(edit.pc = "set" /\ edit'.pc = "idle" /\ faults' = faults)
       => /\ Len(transcripts') = Len(transcripts)
          /\ \A i \in 1..Len(transcripts) :
                IF transcripts[i].id = edit.id
                THEN transcripts'[i] =
                        [transcripts[i] EXCEPT
                            !.transcript = transcripts'[i].transcript,
                            !.filename = transcripts'[i].filename,
                            !.updatedAt = transcripts'[i].updatedAt]
                ELSE transcripts'[i] = transcripts[i]]_vars

\* the word list of a parsed response
InputWords(raw) ==
    IF raw.t = "arr" THEN raw.a
    ELSE IF Prop(raw, "words").t = "arr" THEN Prop(raw, "words").a
    ELSE <<>>

\* a number, or a string that holds decimal digits between optional blanks
NumericLike(v) ==
    \/ v.t = "num"
    \/ v.t = "str" /\ Trim(v.s) # "" /\ AllDigits(Trim(v.s))

\* C20: in the normalizer's result, the start and end of a word are numbers
\* when the input values are numeric-like and null otherwise; a missing, null,
\* empty, blank or non-numeric value never becomes 0.
C20_UnknownIsNeverZero ==
    norm.out # NoResponse
    => /\ Len(norm.out.words) = Len(InputWords(norm.raw))
       /\ \A i \in 1..Len(norm.out.words) :
             /\ IF NumericLike(Prop(InputWords(norm.raw)[i], "start"))
                THEN norm.out.words[i].start.t = "num"
                ELSE norm.out.words[i].start = JNull
             /\ IF NumericLike(Prop(InputWords(norm.raw)[i], "end"))
                THEN norm.out.words[i].end.t = "num"
                ELSE norm.out.words[i].end = JNull

\* the characters of s with every run of whitespace inside the text read as
\* one space and the whitespace at both ends left out: the i-th character is
\* kept when it is no whitespace, and a whitespace character stands for a
\* space when it follows a character that is none and text follows it
RECURSIVE Squeezed(_, _)
Squeezed(s, i) ==
    IF i > Len(s) THEN ""
    ELSE (IF ~IsSpace(CharAt(s, i)) THEN CharAt(s, i)
          ELSE IF /\ i > 1
                  /\ ~IsSpace(CharAt(s, i - 1))
                  /\ \E j \in (i + 1)..Len(s) : ~IsSpace(CharAt(s, j))
               THEN " "
               ELSE "")
         \o Squeezed(s, i + 1)

\* the texts of the input words, one after the other
RECURSIVE Concatenated(_)
Concatenated(ws) ==
    IF Len(ws) = 0 THEN "" ELSE WordText(Head(ws)) \o Concatenated(Tail(ws))

\* the order and the texts of the input words are kept
WordsPreserved ==
    /\ Len(norm.out.words) = Len(InputWords(norm.raw))
    /\ \A i \in 1..Len(norm.out.words) :
          norm.out.words[i].word = WordText(InputWords(norm.raw)[i])

\* C21 (as stated): a transcript string of the response is returned as given;
\* with no transcript string and a non-empty word list the transcript is the
\* word texts concatenated, whitespace collapsed and trimmed; otherwise it is
\* empty; the word list keeps its order.
C21_SynthesizedWhenAbsent ==
    norm.out # NoResponse
    => LET t == Prop(norm.raw, "transcript") IN
       /\ WordsPreserved
       /\ norm.out.transcript =
             IF t.t = "str" THEN t.s
             ELSE IF Len(InputWords(norm.raw)) > 0
                  THEN Squeezed(Concatenated(InputWords(norm.raw)), 1)
                  ELSE ""

\* C21 (amended): a non-empty transcript string of the response is returned
\* as given; with no transcript string or an empty one, and a non-empty word
\* list, the transcript is the word texts concatenated, whitespace collapsed
\* and trimmed; otherwise it is empty; the word list keeps its order.
C21_SynthesizedWhenEmpty ==
    norm.out # NoResponse
    => LET t == Prop(norm.raw, "transcript") IN
       /\ WordsPreserved
       /\ norm.out.transcript =
             IF t.t = "str" /\ t.s # "" THEN t.s
             ELSE IF Len(InputWords(norm.raw)) > 0
                  THEN Squeezed(Concatenated(InputWords(norm.raw)), 1)
                  ELSE ""

\* a response with an empty transcript string and three words was normalized
C21_Witness ==
    /\ norm.out # NoResponse
    /\ Prop(norm.raw, "transcript") = JStr("")
    /\ Len(InputWords(norm.raw)) = 3
    /\ norm.out.transcript = "Hello big world"

\* C22: every record of the store whose status is pending or error has an
\* empty words list.
C22_WordsOnlyOnSuccess ==
    \A i \in 1..Len(transcripts) :
       transcripts[i].status # "success" => transcripts[i].words = <<>>

\* the store holds a success record with words next to an error record that
\* the popup's catch block marked
C22_Witness ==
    /\ \E i \in 1..Len(transcripts) :
          transcripts[i].status = "success" /\ transcripts[i].words # <<>>
    /\ \E i \in 1..Len(transcripts) :
          transcripts[i].status = "error" /\ transcripts[i].error = pop[1].message

\* C23: every record of the store whose status is pending or success has
\* error = null.
C23_ErrorOnlyOnErrorRecords ==
    \A i \in 1..Len(transcripts) :
       transcripts[i].status # "error" => transcripts[i].error = NULL

\* an error record with its message was edited, and a delete was handled
C23_Witness ==
    /\ edits > 0
    /\ deletes > 0
    /\ \E i \in 1..Len(transcripts) :
          /\ transcripts[i].status = "error"
          /\ transcripts[i].error = "Server error 500"
          /\ transcripts[i].transcript = "edited"

\* C24: every record of the store whose status is pending has an empty
\* transcript.
C24_PendingHasEmptyTranscript ==
    \A i \in 1..Len(transcripts) :
       transcripts[i].status = "pending" => transcripts[i].transcript = ""

\* C25: the step in which startUpload writes its terminal record, having read
\* the list as the store holds it, leaves the filename the store holds for the
\* record as it is.
C25_TerminalWriteKeepsFilename ==
    [][\A p \in Uploads :
          (/\ up[p].pc = "term_set" /\ up'[p].pc = "done" /\ faults' = faults
           /\ up[p].snap = transcripts)
          => \A i \in WithId(transcripts, p) :
                \A j \in WithId(transcripts', p) :
                   transcripts'[j].filename = transcripts[i].filename]_vars

\* two lists have the records they both hold in the same order
SameOrder(l1, l2) ==
    \A i, j \in 1..Len(l1) :
       (i < j /\ l1[i].id # l1[j].id)
       => \A m, n \in 1..Len(l2) :
             (l2[m].id = l1[i].id /\ l2[n].id = l1[j].id) => m < n

\* the lists that handlers hold and will write back, and the list a
\* getTranscripts message was answered with
HeldLists ==
    {up[p].snap : p \in Uploads} \cup {pop[q].snap : q \in Popups}
    \cup {edit.snap, del.snap}
    \cup (IF listed.kind = "result" THEN {listed.transcripts} ELSE {})

C28_NoCredentialAfterLogout ==
    (signOut.pc = "done" /\ faults = 0 /\ ~signIn.afterLogout)
    => (authToken = Undefined /\ ~isAuthenticated)

\* the popup's sign-in has stored the credential
SignedIn == signIn.pc = "done" /\ ~signIn.shownError

\* C29: when the cleanup has run, with no storage failure, more than
\* thirtyDays after a sign-in through the popup, the store holds no authToken,
\* no user and is not marked authenticated.
C29_SessionTimesOut ==
    (/\ SignedIn
     /\ cleanup.pc = "idle"
     /\ cleanup.runs > 0
     /\ cleanup.ranAt - signIn.at > thirtyDays
     /\ faults = 0)
    => (authToken = Undefined /\ user = Undefined /\ ~isAuthenticated)

\* what parseTranscriptionResponseText gives the normalizer: the strict parse
\* of the body, or the parse after the repair pass
ParsedBody(body) == IF body.strict # ParseFail THEN body.strict ELSE body.repaired

\* C30: an answer with a success status whose body parses to neither a word
\* sequence nor a keyed structure (or does not parse) is never recorded as a
\* success record.
C30_OnlyListsAndObjectsSucceed ==
    \A p \in Uploads :
       (/\ up[p].net.kind = "response"
        /\ IsOk(up[p].net.status)
        /\ ParsedBody(up[p].net.body).t \notin {"arr", "obj"})
       => /\ up[p].term.status # "success"
          /\ \A i \in WithId(transcripts, p) : transcripts[i].status # "success"
          /\ up[p].ret.kind = "result" => ~up[p].ret.success

\* the messages of the failures that end a processAudioFile invocation before
\* its record is created: the two of validateAudioFile and the missing token
RejectionMessages ==
    {"Invalid file type. Please upload an audio file.",
     "File too large. Please upload a file smaller than 500MB.",
     "Authentication required"}

RejectedBeforeRecord(q) ==
    ~pop[q].stored /\ pop[q].message \in RejectionMessages

\* C31: no step of a processAudioFile invocation that was rejected before its
\* record was created (invalid file type, file too large, no stored token)
\* changes the record list.
C31_RejectedLeavesStore ==
    [][\A q \in Popups :
          (RejectedBeforeRecord(q) /\ pop'[q] # pop[q]) => transcripts' = transcripts]_vars

\* C32: the step in which a processAudioFile invocation that created a record
\* marks its failure leaves every pending record of another upload as it was.
C32_FailureMarksOwnRecord ==
    [][\A q \in Popups :
          (pop[q].pc = "c_set" /\ pop[q].stored /\ pop'[q].pc = "done")
          => \A i \in 1..Len(transcripts) :
                (transcripts[i].id # PopupId(q) /\ transcripts[i].status = "pending")
                => \E j \in 1..Len(transcripts') : transcripts'[j] = transcripts[i]]_vars

\* the step of p sends the uploadProgress notification with the status
Notifies(p, status) ==
    /\ Len(up'[p].steps) > Len(up[p].steps)
    /\ up'[p].steps[Len(up'[p].steps)] = "notify_" \o status

\* the step of p returns {success, id} from startUpload
Returns(p, success) ==
    /\ up[p].ret.kind = "none"
    /\ up'[p].ret.kind = "result"
    /\ up'[p].ret.id = p
    /\ up'[p].ret.success = success

\* C33: when startUpload sends the notification with status success (error)
\* for its id, or returns {success: true, id} ({success: false, id}), the
\* store holds a record with that id and that status.
C33_ToldMatchesStore ==
    [][\A p \in Uploads :
          /\ (Notifies(p, "success") \/ Returns(p, TRUE))
             => StatusOf(transcripts', p) = "success"
          /\ (Notifies(p, "error") \/ Returns(p, FALSE))
             => StatusOf(transcripts', p) = "error"]_vars

\* the place of a step in the order of startUpload
Rank(step) ==
    CASE step = "save" -> 1
      [] step = "notify_pending" -> 2
      [] step = "post" -> 3
      [] step = "terminal_write" -> 4
      [] OTHER -> 5

TerminalNotifications(steps) ==
    {i \in 1..Len(steps) : steps[i] \in {"notify_success", "notify_error"}}

StepsInOrder(steps) ==
    \A i, j \in 1..Len(steps) : i < j => Rank(steps[i]) < Rank(steps[j])

\* C34: the steps of a startUpload invocation are taken in the order pending
\* write, pending notification, POST, terminal write, terminal notification,
\* with the POST after the pending write was attempted, and an invocation that
\* is over has sent exactly one terminal notification.
C34_FixedOrderOneTerminalNotification ==
    \A p \in Uploads :
       /\ StepsInOrder(up[p].steps)
       /\ up[p].posts > 0 => Rank(up[p].steps[1]) = 1
       /\ (Accepted(p) /\ up[p].pc = "done")
          => Cardinality(TerminalNotifications(up[p].steps)) = 1

\* the order alone, and at most one terminal notification
C34_OrderHolds ==
    \A p \in Uploads :
       /\ StepsInOrder(up[p].steps)
       /\ up[p].posts > 0 => Rank(up[p].steps[1]) = 1
       /\ Cardinality(TerminalNotifications(up[p].steps)) <= 1

\* the invocation that creates the record with the id has finished
\* saveTranscriptRecord: no later write is the insertion of that record
InsertionOver(id) == up[id].pc \notin {"idle", "save_get", "save_set"}

\* C35: once deleteTranscript has removed the record with an id and returned
\* success, no later write of the store puts a record with that id back.
C35_DeletedStaysDeleted ==
    [][\A id \in deleted :
          (InsertionOver(id) /\ WithId(transcripts, id) = {})
          => WithId(transcripts', id) = {}]_vars

\* C36: a step never changes the createdAt of a record that stays in the
\* store, and never removes or lowers its updatedAt.
C36_TimestampsMonotonic ==
    [][\A i \in 1..Len(transcripts), j \in 1..Len(transcripts') :
          transcripts[i].id = transcripts'[j].id
          => /\ transcripts'[j].createdAt = transcripts[i].createdAt
             /\ transcripts[i].updatedAt.t = "num"
                => /\ transcripts'[j].updatedAt.t = "num"
                   /\ transcripts'[j].updatedAt.n >= transcripts[i].updatedAt.n]_vars

\* the part of C36 about createdAt alone
C36_CreatedAtFixed ==
    [][\A i \in 1..Len(transcripts), j \in 1..Len(transcripts') :
          transcripts[i].id = transcripts'[j].id
          => transcripts'[j].createdAt = transcripts[i].createdAt]_vars

\* the part of C36 about updatedAt alone
C36_UpdatedAtKept ==
    [][\A i \in 1..Len(transcripts), j \in 1..Len(transcripts') :
          (transcripts[i].id = transcripts'[j].id /\ transcripts[i].updatedAt.t = "num")
          => /\ transcripts'[j].updatedAt.t = "num"
             /\ transcripts'[j].updatedAt.n >= transcripts[i].updatedAt.n]_vars

\* the time of the oldest of the latest maxRequests accepted calls of u, the
\* oldest request a rejection can count
OldestCounted(u) == accepted[u][Len(accepted[u]) - maxRequests + 1]

\* C37: a checkRateLimit call that is rejected leaves the limiter's table and
\* the accepted calls as they were, and a call is rejected only while the
\* oldest of the identity's latest maxRequests accepted calls is less than
\* windowMs old, however many calls were rejected in between.
C37_RejectionLeavesLimiter ==
    [][(calls' = calls + 1 /\ ~last'.allowed)
       => /\ rateLimitData' = rateLimitData
          /\ accepted' = accepted
          /\ Len(accepted[last'.user]) >= maxRequests
          /\ last'.at - OldestCounted(last'.user) < windowMs]_vars

\* an identity was rejected twice and its table still holds the maxRequests
\* accepted calls
C37_Witness ==
    \E u \in Users :
       /\ last.user = u
       /\ ~last.allowed
       /\ securityLog["rate_limit_exceeded"] >= 2
       /\ Len(rateLimitData[u]) = maxRequests
       /\ Len(accepted[u]) = maxRequests

\* the message came from the extension itself and its request is an object
FromExtension(l) == Prop(l.sender, "id") = JStr(runtimeId)
IsObject(l) == l.request.t \in {"obj", "arr"}

\* the step receives a message
Arrives == listener'.n = listener.n + 1

\* C38: a message of another sender, or one whose request is not an object, is
\* answered with 'Unauthorized request' in the step that receives it, without
\* a call of handleMessage and with the record store, the credentials, the
\* rate limiter and the handlers as they were; any other message is given to
\* handleMessage and not answered with 'Unauthorized request'; no message
\* gets more than one response, and one that has been dealt with has exactly
\* one.
C38_ListenerGuards ==
    [][/\ (Arrives /\ ~(FromExtension(listener') /\ IsObject(listener')))
          => /\ listener'.responses = <<"Unauthorized request">>
             /\ listener'.pc = "done"
             /\ ~listener'.handled
             /\ UNCHANGED <<transcripts, authToken, userData, user,
                            isAuthenticated, rateLimitData, accepted, calls,
                            up, edit, del, deleted, auth, pop>>
       /\ (Arrives /\ FromExtension(listener') /\ IsObject(listener'))
          => /\ listener'.handled
             /\ \A i \in 1..Len(listener'.responses) :
                   listener'.responses[i] # "Unauthorized request"
       /\ Len(listener'.responses) <= 1
       /\ listener'.pc = "done" => Len(listener'.responses) = 1]_vars

\* a deleteTranscript message of another extension for a record that is in the
\* store was answered with 'Unauthorized request', and the record is there
C38_Witness ==
    /\ listener.pc = "done"
    /\ Prop(listener.sender, "id") = JStr("other")
    /\ Prop(listener.request, "action") = JStr("deleteTranscript")
    /\ WithId(transcripts, IdOf(Prop(listener.request, "data"))) # {}
    /\ listener.responses = <<"Unauthorized request">>
    /\ ~listener.handled

\* a message of the extension whose handler threw was answered once, with
\* 'Internal error'
C38_HandlerThrew ==
    /\ listener.pc = "done"
    /\ FromExtension(listener)
    /\ listener.handled
    /\ listener.responses = <<"Internal error">>

\* isLoading of the popup: signInWithGoogle is between `isLoading.value = true`
\* and its finally block
isLoading == signIn.pc \notin {"idle", "done"}

\* C39: a signInWithGoogle call that has set isLoading ends and resets it,
\* whatever the userinfo endpoint answers.
C39_SignInTerminates == [](isLoading => <>(signIn.pc = "done"))

\* the sign-in ends when the userinfo endpoint stops answering 401 at some time
C39_TerminatesUnlessAlways401 ==
    <>[](signIn.pc # "force_get") => [](isLoading => <>(signIn.pc = "done"))

====
